---- MODULE Spec2Model ----
(***************************************************************************)
(* Model of the pygeomag stream core: Stream.merge_by_location             *)
(* (pygeomag/data/stream.py), lib.is_common_traces and lib.order_stream    *)
(* (pygeomag/data/formats/lib.py) and the validation part of the three     *)
(* format writers (iaga2002, imfv122, internet).                           *)
(*                                                                         *)
(* A trace is a record                                                     *)
(*   [network, station, location, channel, delta, starttime, data]         *)
(* channel is the 3-character code as a tuple of characters, delta is the  *)
(* sampling interval in seconds (sampling_rate = 1/delta), starttime is in *)
(* seconds and always a multiple of delta, data is the sample array; a     *)
(* sample equal to Masked is a masked entry of a numpy masked array.       *)
(* All traces have the same dtype and calibration factor.                  *)
(***************************************************************************)
EXTENDS Integers, Sequences, FiniteSets, TLC

VARIABLES
    stream,     \* the Stream object the caller holds (its traces are mutable)
    original,   \* the traces of stream as they were constructed
    locations,  \* the locations argument of the merge_by_location call
    merged,     \* what merge_by_location returned (or raised)
    ordered,    \* what lib.order_stream returned (or raised)
    written,    \* what write() of a format did
    remerged,   \* what merge_by_location returned for the merged stream
    inventory,  \* the inventory argument of write()
    source,     \* the source argument of write()
    output,     \* what write() raised or wrote to the resource
    resource,   \* the resource of write(): its kind, opened and closed by write()
    filename,   \* what get_filename of the two formats returned for a stats
    files,      \* what fdsnws2directory did: the files it wrote, in order
    pc          \* position of the calling script

vars ==
    <<stream, original, locations, merged, ordered, written, remerged,
      inventory, source, output, resource, filename, files, pc>>

\* the arguments and the outcome of a complete write()
encVars == <<inventory, source, output, resource, filename, files>>

----------------------------------------------------------------------------
(* Bounds of the inputs *)

MaxLen == 2      \* longest sample array drawn for a trace
MaxStart == 2    \* latest start of a trace, in sampling intervals
MaxVal == 2      \* sample values are 1..MaxVal
MaxLocs == 3     \* longest locations list passed to merge_by_location

----------------------------------------------------------------------------
(* Values *)

\* np.ma.masked: a sample flagged missing in a masked array
Masked == -1

\* Python compares str by code point: "" first, digits before capitals,
\* capitals before small letters.
StrOrder ==
    << "", "00", "01", "02", "03", "04", "05", "C2", "D0", "F", "G", "H",
       "L", "M", "OTT", "R1", "R2", "SNK", "U", "X", "Y", "Z", "ott" >>

StrRankOf ==
    [s \in {StrOrder[i] : i \in 1..Len(StrOrder)} |->
        CHOOSE i \in 1..Len(StrOrder) : StrOrder[i] = s]

StrRank(s) == StrRankOf[s]

StrLess(a, b) == StrRank(a) < StrRank(b)

\* str < str on the channel code, character by character
ChanLess(a, b) ==
    \E k \in 1..3 :
        /\ \A j \in 1..(k - 1) : a[j] = b[j]
        /\ StrLess(a[k], b[k])

\* "%02d" % idx
Fmt02d(idx) == <<"00", "01", "02", "03", "04", "05">>[idx + 1]

\* a Python list: the same sequence, its elements evaluated once
ToList(s) == s \o <<>>

\* list.sort(key=...): a stable sort; less[i][j] tells whether the key of
\* s[i] is smaller than the key of s[j]
StableSort(s, less) ==
    LET n == Len(s)
        pos(i) == 1 + Cardinality({j \in 1..n :
                        \/ less[j][i]
                        \/ (~less[i][j] /\ j < i)})
    IN  ToList([p \in 1..n |-> s[CHOOSE i \in 1..n : pos(i) = p]])

RECURSIVE Repeat(_, _)
Repeat(v, n) == IF n <= 0 THEN <<>> ELSE <<v>> \o Repeat(v, n - 1)

Range(s) == {s[i] : i \in 1..Len(s)}

----------------------------------------------------------------------------
(* obspy Trace *)

\* Trace.stats.npts
npts(tr) == Len(tr.data)

\* Trace.stats.endtime: starttime + (npts - 1) * delta, starttime when empty
endtime(tr) ==
    IF npts(tr) = 0 THEN tr.starttime
    ELSE tr.starttime + (npts(tr) - 1) * tr.delta

\* Trace.stats.component: the last character of the channel code
component(tr) == tr.channel[3]

\* variant: the station code is left out of the id
TraceIdNoStation(tr) == <<tr.network, "", tr.location, tr.channel>>

\* Trace.id: network.station.location.channel
TraceId(tr) == <<tr.network, tr.station, tr.location, tr.channel>>

----------------------------------------------------------------------------
(* obspy Trace.__add__(trace, method=1, fill_value=None,                   *)
(* interpolation_samples=0), as Stream.merge(method=1) calls it.           *)

\* the part of a contained trace's span where both traces agree on every
\* sample that neither masks: each position keeps the left value unless the
\* left one is masked, then the right one (masked when both are).
ChooseUnmasked(x, y) ==
    [i \in 1..Len(x) |-> IF x[i] = Masked THEN y[i] ELSE x[i]]

\* np.all(np.ma.masked_array(x == y).filled()): masked comparisons count
\* as equal
AllValidEqual(x, y) ==
    \A i \in 1..Len(x) : x[i] = Masked \/ y[i] = Masked \/ x[i] = y[i]

\* variant: a contained trace overwrites the span it covers
ContainedTakesRight(lt, rt) ==
    [lt EXCEPT !.data = [i \in 1..Len(lt.data) |->
        LET off == (rt.starttime - lt.starttime) \div lt.delta
        IN  IF i > off /\ i <= off + npts(rt) THEN rt.data[i - off]
            ELSE lt.data[i]]]

TraceAddContained(lt, rt) ==
    LET n == npts(lt)
        delta == (n - 1) - ((rt.starttime - lt.starttime) \div lt.delta) + 1
        t1 == n - delta
        t2 == t1 + npts(rt)
        x == SubSeq(lt.data, t1 + 1, t2)
        y == rt.data
    IN  IF AllValidEqual(x, y)
        THEN [lt EXCEPT !.data =
                 SubSeq(lt.data, 1, t1) \o ChooseUnmasked(x, y)
                     \o SubSeq(lt.data, t2 + 1, n)]
        ELSE lt    \* method == 1: data = [lt.data]

TraceAddOverlap(lt, rt) ==
    LET n == npts(lt)
        delta == (n - 1) - ((rt.starttime - lt.starttime) \div lt.delta) + 1
    IN  \* identical overlap: [lt.data[:-delta], rt.data]; otherwise, with
        \* interpolation_samples = 0, the interpolation is empty and the
        \* result is [lt.data[:-delta], rt.data[0:]]
        [lt EXCEPT !.data = SubSeq(lt.data, 1, n - delta) \o rt.data]

TraceAdd(self, trace) ==
    LET leftIsSelf == self.starttime <= trace.starttime
        lt == IF leftIsSelf THEN self ELSE trace
        rt == IF leftIsSelf THEN trace ELSE self
        \* (rt.starttime - lt.endtime) * sampling_rate, rounded, minus 1;
        \* start times are multiples of delta, so the division is exact
        delta == ((rt.starttime - endtime(lt)) \div lt.delta) - 1
        delta_endtime == endtime(lt) - endtime(rt)
    IN  IF delta < 0 /\ delta_endtime < 0 THEN TraceAddOverlap(lt, rt)
        ELSE IF delta < 0 THEN TraceAddContained(lt, rt)
        ELSE IF delta = 0 THEN [lt EXCEPT !.data = lt.data \o rt.data]
        ELSE [lt EXCEPT !.data = lt.data \o Repeat(Masked, delta) \o rt.data]

----------------------------------------------------------------------------
(* obspy Stream.sort and Stream.merge(method=1) *)

\* Stream.sort(): network, station, location, channel, starttime, endtime
TraceLess(a, b) ==
    LET ka == <<StrRank(a.network), StrRank(a.station), StrRank(a.location),
                StrRank(a.channel[1]), StrRank(a.channel[2]),
                StrRank(a.channel[3]), a.starttime, endtime(a)>>
        kb == <<StrRank(b.network), StrRank(b.station), StrRank(b.location),
                StrRank(b.channel[1]), StrRank(b.channel[2]),
                StrRank(b.channel[3]), b.starttime, endtime(b)>>
    IN  \E k \in 1..8 :
            /\ \A j \in 1..(k - 1) : ka[j] = kb[j]
            /\ ka[k] < kb[k]

\* variant: sort by location in descending order
LocationGreater(a, b) == StrLess(b.location, a.location)

\* Stream.sort(keys=['location'])
LocationLess(a, b) == StrLess(a.location, b.location)

\* Stream._merge_checks: traces of one id must share the sampling rate
MergeChecksOk(traces) ==
    \A i, j \in 1..Len(traces) :
        TraceId(traces[i]) = TraceId(traces[j])
            => traces[i].delta = traces[j].delta

RECURSIVE FoldAdd(_, _)
FoldAdd(cur_trace, rest) ==
    IF rest = <<>> THEN cur_trace
    ELSE FoldAdd(TraceAdd(cur_trace, Head(rest)), Tail(rest))

RECURSIVE SeqOfIds(_, _)
\* the ids of traces in order of first appearance (keys of traces_dict)
SeqOfIds(traces, seen) ==
    IF traces = <<>> THEN <<>>
    ELSE IF TraceId(Head(traces)) \in seen THEN SeqOfIds(Tail(traces), seen)
    ELSE <<TraceId(Head(traces))>>
             \o SeqOfIds(Tail(traces), seen \cup {TraceId(Head(traces))})

SelectSeqById(traces, id) ==
    LET Test(tr) == TraceId(tr) = id IN SelectSeq(traces, Test)

\* Stream.merge(method=1) on the list of traces: the traces of one id are
\* added up in sorted order; the traces made by an addition come first, the
\* traces that were alone under their id keep their order after them.
StreamMerge(traces) ==
    LET n == Len(traces)
        less == ToList([i \in 1..n |-> ToList([j \in 1..n |->
                    TraceLess(traces[i], traces[j])])])
        sorted == StableSort(traces, less)
        ids == SeqOfIds(sorted, {})
        group(id) == SelectSeqById(sorted, id)
        IsNew(id) == Len(group(id)) > 1
        IsOld(tr) == Len(group(TraceId(tr))) = 1
        news == SelectSeq(ids, IsNew)
    IN  [k \in 1..Len(news) |->
            FoldAdd(Head(group(news[k])), Tail(group(news[k])))]
        \o SelectSeq(traces, IsOld)

----------------------------------------------------------------------------
(* pygeomag.data.stream.Stream.merge_by_location *)

\* locations=None: the argument is left out
None == [given |-> FALSE, list |-> <<>>]

NoResult == [error |-> "not called", traces |-> <<>>]
Raised(msg) == [error |-> msg, traces |-> <<>>]
Returned(traces) == [error |-> "", traces |-> traces]

ErrMergeRate == "Can't merge traces with same ids but differing sampling rates!"

\* variant: the location code is not used in the selection
SelectAnyLocation(traces, code) == [i \in 1..Len(traces) |-> i]

\* Stream.select(location=code): the positions of the matching traces, in
\* stream order; the selection holds the traces themselves, not copies
SelectLocation(traces, code) ==
    LET idx == [i \in 1..Len(traces) |-> i]
        Test(i) == traces[i].location = code
    IN  SelectSeq(idx, Test)

RECURSIVE SelectAndRename(_, _, _, _)
\* the loop over range(len(locations)): every selected trace is renamed in
\* place to "%02d" % idx and appended to new_stream
SelectAndRename(traces, refs, locs, idx) ==
    IF idx >= Len(locs) THEN [traces |-> traces, refs |-> refs]
    ELSE LET temp_stream == SelectLocation(traces, locs[idx + 1])
             renamed == ToList([i \in 1..Len(traces) |->
                            IF i \in Range(temp_stream)
                            THEN [traces[i] EXCEPT !.location = Fmt02d(idx)]
                            ELSE traces[i]])
         IN  SelectAndRename(renamed, refs \o temp_stream, locs, idx + 1)

\* variant: the traces are put in reverse order instead of being sorted
SortRefsReversed(traces, refs) ==
    [k \in 1..Len(refs) |-> refs[Len(refs) + 1 - k]]

\* new_stream.sort(keys=['location']) on the references
SortRefsByLocation(traces, refs) ==
    LET n == Len(refs)
        less == ToList([i \in 1..n |-> ToList([j \in 1..n |->
                    LocationLess(traces[refs[i]], traces[refs[j]])])])
    IN  StableSort(refs, less)

\* variant: the location codes are left as they are
EraseLocationNot(traces, refs, replace_location) == traces

\* for trace in new_stream: trace.stats.location = replace_location
EraseLocation(traces, refs, replace_location) ==
    ToList([i \in 1..Len(traces) |->
        IF i \in Range(refs)
        THEN [traces[i] EXCEPT !.location = replace_location]
        ELSE traces[i]])

\* new_stream.merge(method=1)
MergeResult(traces) ==
    IF MergeChecksOk(traces) THEN Returned(StreamMerge(traces))
    ELSE Raised(ErrMergeRate)

\* locations is [given |-> FALSE] for None, [given |-> TRUE, list |-> ...]
\* otherwise.  Gives the traces of self after the call and the result.
merge_by_location(self, locs, replace_location) ==
    IF locs.given
    THEN LET sel == SelectAndRename(self, <<>>, locs.list, 0)
             refs == SortRefsByLocation(sel.traces, sel.refs)
             after == EraseLocation(sel.traces, refs, replace_location)
         IN  [self |-> after,
              result |-> MergeResult(ToList([k \in 1..Len(refs) |-> after[refs[k]]]))]
    ELSE LET idx == [i \in 1..Len(self) |-> i]
             refs == SortRefsByLocation(self, idx)
             copy == EraseLocation(self, refs, replace_location)
         IN  [self |-> self,
              result |-> MergeResult(ToList([k \in 1..Len(refs) |-> copy[refs[k]]]))]

----------------------------------------------------------------------------
(* pygeomag.data.formats.lib *)

COMPONENTS == <<"X", "Y", "Z", "F">>

ErrCommon == "All traces in the stream must come from the same station and sampling rate"
ErrEmpty == "We cannot reorder the components of an empty stream object"
ErrMultiple == "The obspy Stream can not have mutliple identical components.  Recommend merging by component."
ErrMinute == "Only minute data is supported in IMFv1.22 format"

\* getattr(trace.stats, name); sampling_rate is 1/delta
GetStat(tr, name) ==
    CASE name = "network" -> tr.network
      [] name = "station" -> tr.station
      [] name = "sampling_rate" -> <<1, tr.delta>>

\* variant: only the first of the listed fields is compared
IsCommonFirstFieldOnly(traces, stats_matches) ==
    \A i \in 1..Len(traces) :
        GetStat(traces[i], stats_matches[1]) = GetStat(traces[1], stats_matches[1])

is_common_traces(traces, stats_matches) ==
    \A i \in 1..Len(traces) : \A k \in 1..Len(stats_matches) :
        GetStat(traces[i], stats_matches[k]) = GetStat(traces[1], stats_matches[k])

\* Stream.select(component=c)
SelectComponent(traces, c) ==
    LET Test(tr) == component(tr) = c IN SelectSeq(traces, Test)

\* variant: the channel of the copied header is not rewritten
EmptyTraceKeepsChannel(tr, c) == [tr EXCEPT !.data = <<>>]

\* Trace(np.array([]), header=stats) with the header of stream[0]
EmptyTraceLike(tr, c) ==
    [tr EXCEPT !.channel = SubSeq(tr.channel, 1, 2) \o <<c>>, !.data = <<>>]

RECURSIVE OrderLoop(_, _, _)
\* variant: several traces of one component are not refused, the first is
\* taken
OrderLoopTakesFirst(traces, components, nstream) ==
    IF components = <<>> THEN Returned(nstream)
    ELSE LET c == Head(components)
             tstream == SelectComponent(traces, c)
         IN  IF tstream = <<>>
             THEN OrderLoop(traces, Tail(components),
                            Append(nstream, EmptyTraceLike(traces[1], c)))
             ELSE OrderLoop(traces, Tail(components),
                            Append(nstream, Head(tstream)))

OrderLoop(traces, components, nstream) ==
    IF components = <<>> THEN Returned(nstream)
    ELSE LET c == Head(components)
             tstream == SelectComponent(traces, c)
         IN  IF tstream = <<>>
             THEN OrderLoop(traces, Tail(components),
                            Append(nstream, EmptyTraceLike(traces[1], c)))
             ELSE IF Len(tstream) # 1 THEN Raised(ErrMultiple)
             ELSE OrderLoop(traces, Tail(components), nstream \o tstream)

order_stream(traces, components) ==
    IF Len(traces) = 0 THEN Raised(ErrEmpty)
    ELSE OrderLoop(traces, components, <<>>)

----------------------------------------------------------------------------
(* The validation part of write() in the three format modules *)

CommonStats == <<"network", "station", "sampling_rate">>

WriteIaga2002(traces) ==
    IF ~is_common_traces(traces, CommonStats) THEN Raised(ErrCommon)
    ELSE order_stream(traces, COMPONENTS)

WriteInternet(traces) ==
    IF ~is_common_traces(traces, CommonStats) THEN Raised(ErrCommon)
    ELSE order_stream(traces, COMPONENTS)

\* variant: the sampling interval is not checked
WriteImfv122AnyInterval(traces) ==
    IF ~is_common_traces(traces, CommonStats) THEN Raised(ErrCommon)
    ELSE order_stream(traces, COMPONENTS)

WriteImfv122(traces) ==
    IF ~is_common_traces(traces, CommonStats) THEN Raised(ErrCommon)
    ELSE LET o == order_stream(traces, COMPONENTS)
         IN  IF o.error # "" THEN o
             ELSE IF o.traces[1].delta # 60 THEN Raised(ErrMinute)
             ELSE o

Formats == {"iaga2002", "imfv122", "internet"}

WriteFormat(fmt, traces) ==
    CASE fmt = "iaga2002" -> WriteIaga2002(traces)
      [] fmt = "imfv122" -> WriteImfv122(traces)
      [] fmt = "internet" -> WriteInternet(traces)

----------------------------------------------------------------------------
(* Times, samples and obspy Stream.trim as the writers use them.           *)
(* A sample is a number of hundredths (1.25 is 125); times are seconds     *)
(* counted from 2019-01-01T00:00:00, the sampling interval divides a day.  *)

Scale == 100

\* starttime + 86400: the length of a day in seconds
DaySeconds == 24 * 3600

\* UTCDateTime(t.date): the beginning of the day of t
DayStart(t) == (t \div DaySeconds) * DaySeconds

\* create_empty_data_chunk(n, dtype, fill_value): n samples of fill_value
Chunk(n, fill_value) == ToList([i \in 1..n |-> fill_value])

\* data.filled(fill_value): the masked samples replaced
Filled(data, fill_value) ==
    ToList([i \in 1..Len(data) |->
        IF data[i] = Masked THEN fill_value ELSE data[i]])

\* variant: the samples of a trace are put at the start of the window
TrimFromIndex(tr, tstart, tend, fill_value) ==
    LET n == ((tend - tstart) \div tr.delta) + 1
        kept == SubSeq(tr.data, 1, IF npts(tr) < n THEN npts(tr) ELSE n)
    IN  [tr EXCEPT !.starttime = tstart,
                   !.data = Filled(kept \o Chunk(n - Len(kept), fill_value),
                                   fill_value)]

\* Trace.trim(starttime, endtime, pad=True, fill_value=fill_value) for
\* starttime <= endtime: _ltrim pads or cuts the left side, _rtrim the right
\* side, then the masked samples are filled
TraceTrim(tr, tstart, tend, fill_value) ==
    LET ldelta == (tstart - tr.starttime) \div tr.delta
        ldata == IF ldelta < 0 THEN Chunk(-ldelta, fill_value) \o tr.data
                 ELSE SubSeq(tr.data, ldelta + 1, npts(tr))
        rdelta == ((tend - tstart) \div tr.delta) - Len(ldata) + 1
        rdata == IF rdelta > 0 THEN ldata \o Chunk(rdelta, fill_value)
                 ELSE SubSeq(ldata, 1, Len(ldata) + rdelta)
    IN  [tr EXCEPT !.starttime = tstart,
                   !.data = Filled(rdata, fill_value)]

\* Stream.trim(starttime, endtime, pad=True, fill_value=fill_value)
StreamTrim(traces, tstart, tend, fill_value) ==
    ToList([i \in 1..Len(traces) |->
        TraceTrim(traces[i], tstart, tend, fill_value)])

\* variant: the end time of the first trace is taken for all
EndtimeOfFirst(traces) == endtime(traces[1])

\* max(trace.stats.endtime) over the traces
MaxEndtime(traces) ==
    CHOOSE e \in {endtime(traces[i]) : i \in 1..Len(traces)} :
        \A i \in 1..Len(traces) : endtime(traces[i]) <= e

\* variant: the start time of the first trace is taken for all
StarttimeOfFirst(traces) == traces[1].starttime

\* min(trace.stats.starttime) over the traces
MinStarttime(traces) ==
    CHOOSE b \in {traces[i].starttime : i \in 1..Len(traces)} :
        \A i \in 1..Len(traces) : b <= traces[i].starttime

----------------------------------------------------------------------------
(* Python string formatting *)

RECURSIVE Spaces(_)
Spaces(n) == IF n <= 0 THEN "" ELSE " " \o Spaces(n - 1)

\* "%-ws" % s: left-justified in a field of at least w characters
PadRight(s, w) == s \o Spaces(w - Len(s))

\* "%ws" % s: right-justified in a field of at least w characters
PadLeft(s, w) == Spaces(w - Len(s)) \o s

Digit(d) == <<"0", "1", "2", "3", "4", "5", "6", "7", "8", "9">>[d + 1]

RECURSIVE NatStr(_)
\* "%d" % n for n >= 0
NatStr(n) == IF n < 10 THEN Digit(n) ELSE NatStr(n \div 10) \o Digit(n % 10)

\* "%d" % n
IntStr(n) == IF n < 0 THEN "-" \o NatStr(-n) ELSE NatStr(n)

RECURSIVE ZeroPad(_, _)
\* "%0wd" % n for n >= 0
ZeroPad(n, w) ==
    IF Len(NatStr(n)) >= w THEN NatStr(n)
    ELSE "0" \o ZeroPad(n, w - 1)

\* "%.2f" % v for a sample v counted in hundredths
Fmt2f(v) ==
    LET a == IF v < 0 THEN -v ELSE v
    IN  (IF v < 0 THEN "-" ELSE "")
            \o NatStr(a \div Scale) \o "." \o ZeroPad(a % Scale, 2)

\* "%.3f" % x for a coordinate x counted in thousandths
Fmt3f(x) ==
    LET a == IF x < 0 THEN -x ELSE x
    IN  (IF x < 0 THEN "-" ELSE "")
            \o NatStr(a \div 1000) \o "." \o ZeroPad(a % 1000, 3)

\* timestamp.strftime("%Y-%m-%d"); the times of the model lie in January 2019
DateText(t) == "2019-01-" \o ZeroPad((t \div DaySeconds) + 1, 2)

\* timestamp.strftime("%j"): the day of the year
DayOfYearText(t) == ZeroPad((t \div DaySeconds) + 1, 3)

\* timestamp.strftime("%H:%M:%S")
ClockText(t) ==
    LET s == t % DaySeconds
    IN  ZeroPad(s \div 3600, 2) \o ":" \o ZeroPad((s % 3600) \div 60, 2)
            \o ":" \o ZeroPad(s % 60, 2)

----------------------------------------------------------------------------
(* pygeomag.data.formats.iaga2002 *)

\* NULL_VALUE = 99999.00
NULL_VALUE_IAGA2002 == 99999 * Scale

ErrDay == "The obspy data stream does not contain data for the same day"

\* what the resource holds after a write: the header records, the line of
\* column titles and the data rows; error is the message of the exception
Written(header, columns, rows) ==
    [error |-> "", header |-> header, columns |-> columns, rows |-> rows]

Failed(msg, header) ==
    [error |-> msg, header |-> header, columns |-> "", rows |-> <<>>]

\* the first character of a location code, "" for an empty code
FirstChar(code) ==
    CASE code \in {"R1", "R2"} -> "R"
      [] code = "D0" -> "D"
      [] code \in {"00", "01", "02", "03", "04", "05"} -> "0"
      [] code = "" -> ""

\* DATA_INTERVAL_TYPES.get(channel[0], '')
DataIntervalType(rate_code) ==
    CASE rate_code = "M" -> "0.125 second"
      [] rate_code = "L" -> "1 second"
      [] rate_code = "U" -> "1 minute (00:30-01:29)"
      [] OTHER -> ""

\* DATA_TYPES.get(location[0], '') when the location code is not empty
DataType(location) ==
    CASE FirstChar(location) = "R" -> "variation"
      [] FirstChar(location) = "D" -> "definitive"
      [] OTHER -> ""

\* " %-23s %-44s|" % (label, value)
HeaderRecord(label, value) ==
    " " \o PadRight(label, 23) \o " " \o PadRight(value, 44) \o "|"

\* ''.join([trace.stats.channel[-1] for trace in stream]).upper()
RECURSIVE Reported(_)
Reported(traces) ==
    IF traces = <<>> THEN ""
    ELSE component(Head(traces)) \o Reported(Tail(traces))

\* station = inventory.networks[0].stations[0] if inventory else None: an
\* inventory that is given holds its station
HasStation(inv) == inv.given

iaga2002_get_headers(traces, inv, src) ==
    LET text == IF src.given THEN src.text
                ELSE IF inv.given THEN inv.source ELSE ""
    IN  << HeaderRecord("Format", "IAGA-2002"),
           HeaderRecord("Source of Data", text),
           HeaderRecord("Station Name",
                        IF HasStation(inv) THEN inv.name ELSE ""),
           HeaderRecord("IAGA CODE", traces[1].station),
           HeaderRecord("Geodetic Latitude",
                        IF HasStation(inv) THEN Fmt3f(inv.latitude) ELSE "0"),
           HeaderRecord("Geodetic Longitude",
                        IF HasStation(inv) THEN Fmt3f(inv.longitude) ELSE "0"),
           HeaderRecord("Elevation",
                        IF HasStation(inv) THEN Fmt3f(inv.elevation) ELSE "0"),
           HeaderRecord("Reported", Reported(traces)),
           HeaderRecord("Sensor Orientation", ""),
           HeaderRecord("Digital Sampling", ""),
           HeaderRecord("Data Interval Type",
                        DataIntervalType(traces[1].channel[1])),
           HeaderRecord("Data Type",
                        IF traces[1].location = "" THEN ""
                        ELSE DataType(traces[1].location)) >>

DECBAS ==
    << " # DECBAS                000000 (Baseline declination value in       |",
       " #                       tenths of minutes East (0-216,000)).        |" >>

\* the records _write_header joins with CRLF and writes
iaga2002_write_header(traces, inv, src) ==
    iaga2002_get_headers(traces, inv, src) \o DECBAS

\* "DATE       TIME         DOY     %3s%1s      ...   |" with the station
\* code and the four components
ColumnTitles(station_code) ==
    "DATE       TIME         DOY     "
        \o PadLeft(station_code, 3) \o "X      "
        \o PadLeft(station_code, 3) \o "Y      "
        \o PadLeft(station_code, 3) \o "Z      "
        \o PadLeft(station_code, 3) \o "F   |"

\* nstream[idx][offset] if it is non-zero and below NULL_VALUE, NULL_VALUE
\* otherwise
Component(v, null_value) ==
    IF v # 0 /\ v < null_value THEN v ELSE null_value

\* the rows of the body: one per sample of the trimmed traces, at
\* starttime + offset / sampling_rate
BodyRows(nstream, tstart, null_value) ==
    ToList([k \in 1..npts(nstream[1]) |->
        [timestamp |-> tstart + (k - 1) * nstream[1].delta,
         components |-> <<Component(nstream[1].data[k], null_value),
                          Component(nstream[2].data[k], null_value),
                          Component(nstream[3].data[k], null_value),
                          Component(nstream[4].data[k], null_value)>>]])

\* variant: the rows run to the end of the day
WriteBodyWholeDay(traces, header) ==
    LET tstart == DayStart(traces[1].starttime)
        tend == tstart + DaySeconds - traces[1].delta
    IN  IF MaxEndtime(traces) >= tstart + DaySeconds THEN Failed(ErrDay, header)
        ELSE Written(header, ColumnTitles(traces[1].station),
                     BodyRows(StreamTrim(traces, tstart, tend,
                                         NULL_VALUE_IAGA2002),
                              tstart, NULL_VALUE_IAGA2002))

\* variant: the day is checked before anything is written
WriteBodyCheckedFirst(traces, header) ==
    LET tstart == DayStart(traces[1].starttime)
        tend == MaxEndtime(traces)
    IN  IF tend >= tstart + DaySeconds THEN Failed(ErrDay, <<>>)
        ELSE Written(header, ColumnTitles(traces[1].station),
                     BodyRows(StreamTrim(traces, tstart, tend,
                                         NULL_VALUE_IAGA2002),
                              tstart, NULL_VALUE_IAGA2002))

\* _write_body(stream, resource) after the header records were written
iaga2002_write_body(traces, header) ==
    LET tstart == DayStart(traces[1].starttime)
        tend == MaxEndtime(traces)
    IN  IF tend >= tstart + DaySeconds THEN Failed(ErrDay, header)
        ELSE Written(header, ColumnTitles(traces[1].station),
                     BodyRows(StreamTrim(traces, tstart, tend,
                                         NULL_VALUE_IAGA2002),
                              tstart, NULL_VALUE_IAGA2002))

\* variant: the comment records are written before the stream is checked
Iaga2002WriteCommentsFirst(traces, inv, src) ==
    LET o == WriteIaga2002(traces)
    IN  IF o.error # "" THEN Failed(o.error, DECBAS)
        ELSE iaga2002_write_body(o.traces,
                                 iaga2002_write_header(o.traces, inv, src))

\* write(stream, filename, inventory, source)
iaga2002_write(traces, inv, src) ==
    LET o == WriteIaga2002(traces)
    IN  IF o.error # "" THEN Failed(o.error, <<>>)
        ELSE iaga2002_write_body(o.traces,
                                 iaga2002_write_header(o.traces, inv, src))

\* the text of a data row:
\* "%s %s    %9.2f %9.2f %9.2f %9.2f" % (date and time, day of year, ...)
Iaga2002RowText(row) ==
    DateText(row.timestamp) \o " " \o ClockText(row.timestamp) \o ".000"
        \o " " \o DayOfYearText(row.timestamp) \o "    "
        \o PadLeft(Fmt2f(row.components[1]), 9) \o " "
        \o PadLeft(Fmt2f(row.components[2]), 9) \o " "
        \o PadLeft(Fmt2f(row.components[3]), 9) \o " "
        \o PadLeft(Fmt2f(row.components[4]), 9)

----------------------------------------------------------------------------
(* pygeomag.data.formats.internet *)

\* NULL_VALUE = 99999.00
NULL_VALUE_INTERNET == 99999 * Scale

\* _write_body(stream, resource): every trace is trimmed and padded to the
\* span from the earliest start to the latest end
internet_write_body(traces) ==
    LET tstart == MinStarttime(traces)
        tend == MaxEndtime(traces)
    IN  Written(<<>>, "",
                BodyRows(StreamTrim(traces, tstart, tend, NULL_VALUE_INTERNET),
                         tstart, NULL_VALUE_INTERNET))

\* write(stream, filename)
internet_write(traces) ==
    LET o == WriteInternet(traces)
    IN  IF o.error # "" THEN Failed(o.error, <<>>)
        ELSE internet_write_body(o.traces)

\* variant: the milliseconds are written only for an interval below 1 second
TimestampWholeAtOneSecond(t, delta) ==
    "2019 " \o DayOfYearText(t) \o ":" \o ClockText(t)
        \o (IF delta >= 1 THEN "" ELSE ".000")

\* the timestamp of a line: "%Y %j:%H:%M:%S" if sampling_rate < 1, with the
\* milliseconds otherwise
InternetTimestamp(t, delta) ==
    "2019 " \o DayOfYearText(t) \o ":" \o ClockText(t)
        \o (IF delta > 1 THEN "" ELSE ".000")

\* "{station} {timestamp} {X} {Y} {Z} {F}", each value as "%.2f"
InternetRowText(station_code, delta, row) ==
    station_code \o " " \o InternetTimestamp(row.timestamp, delta)
        \o " " \o Fmt2f(row.components[1]) \o " " \o Fmt2f(row.components[2])
        \o " " \o Fmt2f(row.components[3]) \o " " \o Fmt2f(row.components[4])

\* the lines written for the rows, with the station code and the sampling
\* rate of nstream[0]
InternetLines(traces, rows) ==
    ToList([r \in 1..Len(rows) |->
        InternetRowText(traces[1].station, traces[1].delta, rows[r])])

----------------------------------------------------------------------------
(* pygeomag.data.formats.imfv122 *)

\* NULL_VALUE = 99999.99
NULL_VALUE_IMFV122 == 99999 * Scale + 99

ErrFullDay == "Error, the trace does not contain a full day worth of data"

\* "%d" % x: the integer part of x, for x = v * 10 and v in hundredths
TimesTen(v) == IF v < 0 THEN -((-v) \div 10) ELSE v \div 10

\* variant: the value itself is written, not 10 times the value
FieldNotScaled(v) ==
    IF v < NULL_VALUE_IMFV122 THEN TimesTen(v) \div 10
    ELSE TimesTen(NULL_VALUE_IMFV122)

\* (data[idx] if data[idx] < NULL_VALUE else NULL_VALUE) * 10 as "%d"
Field(v) ==
    TimesTen(IF v < NULL_VALUE_IMFV122 THEN v ELSE NULL_VALUE_IMFV122)

\* the four values of one minute
MinuteRecord(nstream, idx) ==
    <<Field(nstream[1].data[idx + 1]), Field(nstream[2].data[idx + 1]),
      Field(nstream[3].data[idx + 1]), Field(nstream[4].data[idx + 1])>>

\* MONTHS_STR[month - 1] + strftime("%d%y"), then the day of the year
ImfDateText(t) ==
    "JAN" \o ZeroPad((t \div DaySeconds) + 1, 2) \o "19"

\* the header of an hour block
HourHeader(station_code, tstart, hour, inv) ==
    LET colatitude10 ==
            IF HasStation(inv) THEN (90000 - inv.latitude) \div 100 ELSE 0
        longitude10 == IF HasStation(inv) THEN inv.longitude \div 100 ELSE 0
    IN  PadLeft(station_code, 3) \o " " \o ImfDateText(tstart) \o " "
            \o DayOfYearText(tstart) \o " " \o ZeroPad(hour, 2)
            \o " XYZF R OTT " \o ZeroPad(colatitude10, 4)
            \o ZeroPad(longitude10, 4) \o " 000000 RRRRRRRRRRRRRRRR"

\* variant: the two records of a line change places
ImfLinesSwapped(nstream, tstart, inv) ==
    ToList([n \in 1..(24 * 31) |->
        LET hour == (n - 1) \div 31
            k == ((n - 1) % 31) - 1
        IN  IF k < 0
            THEN [hour |-> hour, line |-> -1,
                  title |-> HourHeader(nstream[1].station, tstart, hour, inv),
                  records |-> <<>>]
            ELSE [hour |-> hour, line |-> k, title |-> "",
                  records |-> <<MinuteRecord(nstream, hour * 60 + 2 * k + 1),
                                MinuteRecord(nstream, hour * 60 + 2 * k)>>]])

\* what the loops over range(24) and range(60) write: for each hour the
\* header, then for every two minutes one line of two records
ImfLines(nstream, tstart, inv) ==
    ToList([n \in 1..(24 * 31) |->
        LET hour == (n - 1) \div 31
            k == ((n - 1) % 31) - 1
        IN  IF k < 0
            THEN [hour |-> hour, line |-> -1,
                  title |-> HourHeader(nstream[1].station, tstart, hour, inv),
                  records |-> <<>>]
            ELSE [hour |-> hour, line |-> k, title |-> "",
                  records |-> <<MinuteRecord(nstream, hour * 60 + 2 * k),
                                MinuteRecord(nstream, hour * 60 + 2 * k + 1)>>]])

\* variant: the traces are padded up to their latest end, not to the end of
\* the day
ImfBodyToLatestEnd(traces, inv) ==
    LET tstart == DayStart(traces[1].starttime)
        tend == MaxEndtime(traces)
        nstream == StreamTrim(traces, tstart, tend, NULL_VALUE_IMFV122)
    IN  IF npts(nstream[1]) # 1440 THEN Failed(ErrFullDay, <<>>)
        ELSE Written(<<>>, "", ImfLines(nstream, tstart, inv))

\* _write_body(stream, resource, inventory)
imfv122_write_body(traces, inv) ==
    LET tstart == DayStart(traces[1].starttime)
        tend == tstart + DaySeconds - traces[1].delta
        nstream == StreamTrim(traces, tstart, tend, NULL_VALUE_IMFV122)
    IN  IF npts(nstream[1]) # 1440 THEN Failed(ErrFullDay, <<>>)
        ELSE Written(<<>>, "", ImfLines(nstream, tstart, inv))

\* write(stream, filename, inventory)
imfv122_write(traces, inv) ==
    LET o == WriteImfv122(traces)
    IN  IF o.error # "" THEN Failed(o.error, <<>>)
        ELSE imfv122_write_body(o.traces, inv)

\* "%7d %7d %7d %6d" % record
ImfRecordText(rec) ==
    PadLeft(IntStr(rec[1]), 7) \o " " \o PadLeft(IntStr(rec[2]), 7) \o " "
        \o PadLeft(IntStr(rec[3]), 7) \o " " \o PadLeft(IntStr(rec[4]), 6)

\* a data line: two records separated by two spaces
ImfLineText(line) ==
    ImfRecordText(line.records[1]) \o "  " \o ImfRecordText(line.records[2])

----------------------------------------------------------------------------
(* Stream.write(resource, format=...) with its arguments *)

Encode(fmt, traces, inv, src) ==
    CASE fmt = "iaga2002" -> iaga2002_write(traces, inv, src)
      [] fmt = "imfv122" -> imfv122_write(traces, inv)
      [] fmt = "internet" -> internet_write(traces)

----------------------------------------------------------------------------
(* get_filename of the format modules *)

\* str.lower() and str.upper() of a station code
Lower(code) ==
    CASE code = "OTT" -> "ott"
      [] code = "ott" -> "ott"

Upper(code) ==
    CASE code = "OTT" -> "OTT"
      [] code = "ott" -> "OTT"

\* variant: DATA_TYPES_FILE.get(location[0], 'v') gives 'v' for every code
DataTypeFileAlwaysV(location) == "v"

\* DATA_TYPES_FILE.get(stats.location[0], 'v') if len(stats.location) else 'v'
DataTypeFile(location) ==
    IF location = "" THEN "v"
    ELSE CASE FirstChar(location) = "R" -> "v"
           [] FirstChar(location) = "D" -> "d"
           [] OTHER -> "v"

\* DATA_INTERVAL_TYPES_FILE.get(stats.channel[0], 'raw')
DataIntervalTypeFile(rate_code) ==
    CASE rate_code = "L" -> "sec"
      [] rate_code = "U" -> "min"
      [] OTHER -> "raw"

\* stats.starttime.strftime("%Y%m%d")
CompactDate(t) == "201901" \o ZeroPad((t \div DaySeconds) + 1, 2)

\* iaga2002.get_filename(stats)
iaga2002_get_filename(stats) ==
    Lower(stats.station) \o CompactDate(stats.starttime)
        \o DataTypeFile(stats.location)
        \o DataIntervalTypeFile(stats.channel[1]) \o "."
        \o DataIntervalTypeFile(stats.channel[1])

\* imfv122.get_filename(stats)
imfv122_get_filename(stats) ==
    ImfDateText(stats.starttime) \o "." \o Upper(stats.station)

----------------------------------------------------------------------------
(* The resource of write(stream, filename, ...): a path or an open sink *)

\* variant: the resource is closed whatever it was
ResourceClosedAlways(kind, out) ==
    [kind |-> kind, opened |-> kind = "path", closed |-> out.error = ""]

\* file_opened is True and open(filename, "w") is called when filename has
\* no write attribute; resource.close() is the last statement of write(),
\* reached only when nothing was raised
ResourceAfter(kind, out) ==
    [kind |-> kind, opened |-> kind = "path",
     closed |-> kind = "path" /\ out.error = ""]

----------------------------------------------------------------------------
(* pygeomag.command_line.fdsnws2directory *)

ErrFormat == "Unable to generate filename for unhandled format"

\* Trace.trim(starttime, endtime) without padding, endtime being the last
\* microsecond before tnext: the samples before starttime are cut; a trace
\* that then starts after endtime is emptied; otherwise the end is the sample
\* nearest to endtime, which is the sample at tnext when the trace has one
TraceTrimNoPad(tr, tstart, tnext) ==
    LET At(i) == tr.starttime + (i - 1) * tr.delta
        inside == {i \in 1..npts(tr) : tstart <= At(i) /\ At(i) < tnext}
        keep == {i \in 1..npts(tr) : tstart <= At(i) /\ At(i) <= tnext}
    IN  IF inside = {} THEN [tr EXCEPT !.data = <<>>]
        ELSE LET lo == CHOOSE i \in keep : \A j \in keep : i <= j
                 hi == CHOOSE i \in keep : \A j \in keep : j <= i
             IN  [tr EXCEPT !.starttime = At(lo),
                            !.data = SubSeq(tr.data, lo, hi)]

\* Stream.trim(starttime, endtime): every trace is trimmed and the traces
\* left without samples are removed
StreamTrimNoPad(traces, tstart, tnext) ==
    LET HasSamples(tr) == npts(tr) > 0
    IN  SelectSeq(ToList([i \in 1..Len(traces) |->
                      TraceTrimNoPad(traces[i], tstart, tnext)]), HasSamples)

\* set([trace.stats.station for trace in stream])
StationsOf(traces) == {traces[i].station : i \in 1..Len(traces)}

\* Stream.select(station=code)
SelectStation(traces, code) ==
    LET Test(tr) == tr.station = code IN SelectSeq(traces, Test)

\* the orders in which "for station in stations" can visit a set
StationOrders(stations) ==
    {o \in [1..Cardinality(stations) -> stations] :
        \A i, j \in 1..Cardinality(stations) : i # j => o[i] # o[j]}

RECURSIVE WriteStations(_, _, _, _, _)
\* the loop over the stations: the filename of the first trace of the
\* station, then extract.write(filename, format, inventory); an exception
\* ends the loop
WriteStations(traces, order, fmt, inv, src) ==
    IF order = <<>> THEN [error |-> "", written |-> <<>>]
    ELSE IF fmt \notin {"iaga2002", "imfv122"}
    THEN [error |-> ErrFormat, written |-> <<>>]
    ELSE LET extract == SelectStation(traces, Head(order))
             name == IF fmt = "iaga2002"
                     THEN iaga2002_get_filename(extract[1])
                     ELSE imfv122_get_filename(extract[1])
             out == Encode(fmt, extract, inv, src)
             file == [name |-> name, stats |-> extract[1], output |-> out,
                      resource |-> ResourceAfter("path", out)]
         IN  IF out.error # "" THEN [error |-> out.error, written |-> <<file>>]
             ELSE LET rest == WriteStations(traces, Tail(order), fmt, inv, src)
                  IN  [error |-> rest.error,
                       written |-> <<file>> \o rest.written]

\* variant: the stream is trimmed without the merge
TrimmedNotMerged(traces, date) ==
    Returned(StreamTrimNoPad(traces, date, date + DaySeconds))

\* stream.merge_by_location().trim(starttime, endtime) for the requested
\* day, starttime being its midnight and endtime its 23:59:59.999999
MergedAndTrimmed(traces, date) ==
    LET m == merge_by_location(traces, None, "").result
    IN  IF m.error # "" THEN m
        ELSE Returned(StreamTrimNoPad(m.traces, date, date + DaySeconds))

----------------------------------------------------------------------------
(* Input streams *)

Tr(net, sta, loc, chan, delta, start, data) ==
    [network |-> net, station |-> sta, location |-> loc, channel |-> chan,
     delta |-> delta, starttime |-> start * delta, data |-> data]

UFX == <<"U", "F", "X">>
UFY == <<"U", "F", "Y">>
UFZ == <<"U", "F", "Z">>
UFF == <<"U", "F", "F">>
UFH == <<"U", "F", "H">>
UGX == <<"U", "G", "X">>

SampleValues == (1..MaxVal) \cup {Masked}
SampleArrays == UNION {[1..n -> SampleValues] : n \in 1..MaxLen}


\* one or two sources of one channel: any location, start and samples; the
\* earliest trace of a stream starts at 0
SourceTraces ==
    {Tr("C2", "OTT", loc, UFX, 60, s, d) :
        loc \in {"R1", "R2"}, s \in 0..MaxStart, d \in SampleArrays}

\* the samples of a stream, trace after trace
RECURSIVE AllSamples(_)
AllSamples(st) ==
    IF st = <<>> THEN <<>> ELSE Head(st).data \o AllSamples(Tail(st))

\* the merge only compares samples for equality and masking, so the values
\* are numbered in order of first appearance: 1, then 2, ...
NumberedInOrder(d) ==
    \A i \in 1..Len(d) :
        d[i] # Masked =>
            \/ d[i] = 1
            \/ \E j \in 1..(i - 1) : d[j] >= d[i] - 1

SourceStreams ==
    LET Firsts == {a \in SourceTraces : NumberedInOrder(a.data)}
    IN  {st \in {<<a>> : a \in Firsts}
                \cup {<<a, b>> : a \in Firsts, b \in SourceTraces} :
            /\ \E i \in 1..Len(st) : st[i].starttime = 0
            /\ NumberedInOrder(AllSamples(st))}

\* three sources of one channel with one sample each at the same time
ThreeSources ==
    LET S == {Tr("C2", "OTT", loc, UFX, 60, 0, <<v>>) :
                 loc \in {"R1", "R2"}, v \in SampleValues}
    IN  {<<a, b, c>> : a \in S, b \in S, c \in S}

\* one or two traces of any station, location, channel and sampling rate;
\* the first trace holds the sample 1, the second the sample 2
IdentTraces(v) ==
    {Tr("C2", sta, loc, chan, delta, 0, <<v>>) :
        sta \in {"OTT", "SNK"}, loc \in {"R1", "R2"},
        chan \in {UFX, UGX, UFY, UFH}, delta \in {60, 1}}

IdentStreams ==
    {<<a>> : a \in IdentTraces(1)}
        \cup {<<a, b>> : a \in IdentTraces(1), b \in IdentTraces(2)}

\* one trace for each of some of the components, in any order
ComponentStreams ==
    LET C == {UFX, UFY, UFZ, UFF}
        T == {Tr("C2", "OTT", "R1", chan, 60, s, <<1>>) : chan \in C, s \in 0..1}
        Distinct(st) == \A i, j \in 1..Len(st) :
                            i # j => st[i].channel # st[j].channel
    IN  {st \in UNION {[1..n -> T] : n \in 1..4} : Distinct(st)}

\* the streams of tests/test_stream.py
TestStreams ==
    LET r1 == Tr("", "OTT", "R1", UFX, 1, 0, <<1, 2, 3>>)
        r2 == Tr("", "OTT", "R2", UFX, 1, 0, <<1, 2, 4>>)
        m1 == Tr("", "OTT", "R1", UFX, 1, 0, <<1, 2, Masked>>)
        s1 == Tr("", "SNK", "R1", UFX, 1, 0, <<1, 2, Masked>>)
    IN  {<<r1, r2>>, <<r2, r1>>, <<r2, m1>>, <<r2, s1>>}

Streams ==
    SourceStreams \cup ThreeSources \cup IdentStreams
        \cup ComponentStreams \cup TestStreams

LocationCodes == {"R1", "R2", "00"}

\* a non-empty list of location codes without repetition
LocationLists ==
    {l \in UNION {[1..n -> LocationCodes] : n \in 1..MaxLocs} :
        \A i, j \in 1..Len(l) : i # j => l[i] # l[j]}


\* inventory=None, source=None, and a resource nothing was written to
NoInventory == [given |-> FALSE]
NoSource == [given |-> FALSE, text |-> ""]
NoOutput ==
    [error |-> "not called", header |-> <<>>, columns |-> "", rows |-> <<>>]
Given(l) == [given |-> TRUE, list |-> l]

\* no write() was called, no get_filename, no fdsnws2directory
NoResource == [kind |-> "", opened |-> FALSE, closed |-> FALSE]
NoFilename == [called |-> FALSE]
NoFiles == [status |-> "not called", format |-> "", error |-> "",
            stream |-> <<>>, written |-> <<>>]

----------------------------------------------------------------------------
(* Inputs of a complete write(): streams of one station on the days        *)
(* 2019-01-02 and 2019-01-03, an inventory and a source                    *)

\* the number of one-minute intervals of a day
DayIntervals == DaySeconds \div 60

\* the starts of a trace, in intervals: the first minutes of 2019-01-02, its
\* last minutes, and midnight of 2019-01-03
EncStarts ==
    {DayIntervals + k : k \in 0..MaxStart}
        \cup {2 * DayIntervals - 2, 2 * DayIntervals - 1, 2 * DayIntervals}

\* base + 1.00, base + 2.00, ...: n samples that differ from each other
Ramp(n, base) == ToList([i \in 1..n |-> base + i * Scale])

\* an X and a Y trace, each with its own start and length, in both orders
TimedStreams ==
    LET xs == {Tr("C2", "OTT", "R1", UFX, 60, s, Ramp(n, 0)) :
                  s \in EncStarts, n \in 1..MaxLen}
        ys == {Tr("C2", "OTT", "R1", UFY, 60, s, Ramp(n, 10 * Scale)) :
                  s \in EncStarts, n \in 1..MaxLen}
    IN  {<<x>> : x \in xs} \cup {<<y>> : y \in ys}
            \cup {<<x, y>> : x \in xs, y \in ys}
            \cup {<<y, x>> : x \in xs, y \in ys}

\* zero, negative and fractional samples, samples at and above the null
\* values of the formats, and a masked sample
EdgeValues ==
    {Masked, 0, -1250, -125, 5, 125, 1234567, 99999 * Scale - 1,
     99999 * Scale, 99999 * Scale + 98, 99999 * Scale + 99, 100000 * Scale}

\* one X trace that starts one minute after midnight and holds an edge value
ValueStreams ==
    {<<Tr("C2", "OTT", "R1", UFX, 60, DayIntervals + 1, d)>> :
        d \in {<<v>> : v \in EdgeValues}
                  \cup {<<Scale, v, 2 * Scale>> : v \in EdgeValues}}

\* a stream whose first trace is of a component the formats do not write
HFirst ==
    <<Tr("C2", "OTT", "R1", UFH, 60, DayIntervals + 2, <<Scale, 2 * Scale>>),
      Tr("C2", "OTT", "R1", UFY, 60, DayIntervals, <<Scale>>)>>

\* streams of other sampling intervals, of several sources of a component,
\* of two stations, and an empty stream
OtherStreams ==
    { <<Tr("C2", "OTT", "R1", <<"L", "F", "X">>, 1, DaySeconds, <<Scale, 0>>)>>,
      <<Tr("C2", "OTT", "R1", UFX, 60, DayIntervals, <<Scale>>),
        Tr("C2", "OTT", "R2", UFX, 60, DayIntervals, <<Scale>>)>>,
      <<Tr("C2", "OTT", "R1", UFX, 60, DayIntervals, <<Scale>>),
        Tr("C2", "SNK", "R1", UFY, 60, DayIntervals, <<Scale>>)>>,
      <<Tr("C2", "OTT", "R1", <<"L", "F", "X">>, 1, DaySeconds, <<Scale>>),
        Tr("C2", "OTT", "R2", <<"L", "F", "X">>, 1, DaySeconds, <<Scale>>)>>,
      <<Tr("C2", "OTT", "R1", UFX, 60, DayIntervals, <<Scale>>),
        Tr("C2", "OTT", "R1", <<"L", "F", "Y">>, 1, DaySeconds, <<Scale>>)>>,
      <<Tr("C2", "OTT", "R1", UFX, 60, DayIntervals, <<Scale>>),
        Tr("C2", "SNK", "R1", UFX, 60, DayIntervals, <<Scale>>)>>,
      <<>> }

\* the stream of tests/test_formats.py: X with 1., 2., 3. from 2019-01-02
TestData ==
    <<Tr("C2", "OTT", "R1", UFX, 60, DayIntervals, <<100, 200, 300>>)>>

\* test_data_begin_missing: the same samples from 00:01:00
TestDataBeginMissing ==
    <<Tr("C2", "OTT", "R1", UFX, 60, DayIntervals + 1, <<100, 200, 300>>)>>

\* an X trace followed by a trace of any network, station, location,
\* component and sampling interval, and three traces of which the last one
\* is of another station
IdentityStreams ==
    LET first == Tr("C2", "OTT", "R1", UFX, 60, DayIntervals, <<Scale>>)
        others == {Tr(net, sta, loc, chan, delta, DayIntervals * (60 \div delta),
                      <<2 * Scale>>) :
                      net \in {"C2", ""}, sta \in {"OTT", "SNK"},
                      loc \in {"R1", "R2"}, chan \in {UFX, UFY, UFH},
                      delta \in {60, 1}}
    IN  {<<first, b>> : b \in others}
            \cup {<<first, Tr("C2", "OTT", "R1", UFY, 60, DayIntervals, <<Scale>>),
                     Tr("C2", "SNK", "R1", UFZ, 60, DayIntervals, <<Scale>>)>>}

EncStreams ==
    TimedStreams \cup ValueStreams \cup OtherStreams \cup IdentityStreams
        \cup {TestData, TestDataBeginMissing, HFirst}

\* streams written with an inventory and a source: the location code picks
\* the data type
HeaderStreams ==
    {<<Tr("C2", "OTT", loc, UFX, 60, DayIntervals, <<Scale>>)>> :
        loc \in {"R1", "D0", "00", ""}}

\* the station of an inventory; coordinates in thousandths
Station(src, name) ==
    [given |-> TRUE, source |-> src, name |-> name, latitude |-> 45403,
     longitude |-> 284448, elevation |-> 75000]

Source(text) == [given |-> TRUE, text |-> text]

Inventories ==
    {NoInventory, Station("NRCan", "Ottawa"),
     Station("NRCan", "Ottawa Geomagnetic Observatory, Ontario, Canada")}

Sources ==
    {NoSource, Source("Geological Survey of Canada (GSC)"),
     Source("Natural Resources Canada, Geomagnetism (GSC)"),
     Source("Natural Resources Canada - Geomagnetism (GSC)")}

\* the stats get_filename is called with: two spellings of a station, four
\* location codes, the rate codes U, L and M on 2019-01-02, and one trace of
\* 2019-01-03
FilenameStats ==
    {Tr("C2", sta, loc, <<rate, "F", "X">>, IF rate = "U" THEN 60 ELSE 1,
        IF rate = "U" THEN DayIntervals ELSE DaySeconds, <<Scale>>) :
        sta \in {"OTT", "ott"}, loc \in {"R1", "D0", "00", ""},
        rate \in {"U", "L", "M"}}
        \cup {Tr("C2", "OTT", "R1", UFX, 60, 2 * DayIntervals, <<Scale>>)}

\* the --date argument of fdsnws2directory: 2019-01-02 or 2019-01-03
DirectoryDates == {DaySeconds, 2 * DaySeconds}

\* what the service returned for a request of one station: definitive and
\* raw sources, one day or across midnight
DirectoryStreams ==
    LET D(chan, start, data) == Tr("C2", "OTT", "D0", chan, 60, start, data)
        R(chan, start, data) == Tr("C2", "OTT", "R1", chan, 60, start, data)
    IN  {<<D(UFX, DayIntervals, <<Scale>>), D(UFY, DayIntervals, <<2 * Scale>>),
           D(UFZ, DayIntervals, <<3 * Scale>>),
           D(UFF, DayIntervals, <<4 * Scale>>)>>,
         <<D(UFX, DayIntervals, <<Scale>>), R(UFX, DayIntervals, <<2 * Scale>>)>>,
         <<D(UFX, DayIntervals, <<Scale>>),
           R(UFY, DayIntervals + 1, <<2 * Scale>>)>>,
         <<D(UFX, 2 * DayIntervals - 1, Ramp(3, 0))>>,
         <<R(UFX, DayIntervals - 1, Ramp(2, 0))>>,
         <<>>}

----------------------------------------------------------------------------
(* The calling script *)

Init ==
    /\ stream \in Streams
    /\ original = stream
    /\ locations = None
    /\ merged = NoResult
    /\ ordered = NoResult
    /\ written = [format |-> "", result |-> NoResult]
    /\ remerged = NoResult
    /\ inventory = NoInventory
    /\ source = NoSource
    /\ output = NoOutput
    /\ resource = NoResource
    /\ filename = NoFilename
    /\ files = NoFiles
    /\ pc = "start"

\* nstream = stream.merge_by_location()
MergeDefault ==
    /\ pc = "start"
    /\ LET r == merge_by_location(stream, None, "")
       IN  /\ stream' = r.self
           /\ merged' = r.result
    /\ locations' = None
    /\ pc' = "merged"
    /\ UNCHANGED <<original, ordered, written, remerged, encVars>>

\* nstream = stream.merge_by_location(locations=[...])
MergeLocations ==
    /\ pc = "start"
    /\ \E l \in LocationLists :
        /\ locations' = Given(l)
        /\ LET r == merge_by_location(stream, Given(l), "")
           IN  /\ stream' = r.self
               /\ merged' = r.result
    /\ pc' = "merged_locations"
    /\ UNCHANGED <<original, ordered, written, remerged, encVars>>

\* lib.order_stream(stream)
OrderStream ==
    /\ pc = "start"
    /\ ordered' = order_stream(stream, COMPONENTS)
    /\ pc' = "ordered"
    /\ UNCHANGED <<stream, original, locations, merged, written, remerged,
                   encVars>>

\* stream.write(buffer, format=fmt) without a merge
WriteStream ==
    /\ pc = "start"
    /\ \E fmt \in Formats :
        written' = [format |-> fmt, result |-> WriteFormat(fmt, stream)]
    /\ pc' = "written"
    /\ UNCHANGED <<stream, original, locations, merged, ordered, remerged,
                   encVars>>

\* stream.merge_by_location().write(buffer, format=fmt)
WriteMerged ==
    /\ pc = "merged"
    /\ merged.error = ""
    /\ \E fmt \in Formats :
        written' = [format |-> fmt, result |-> WriteFormat(fmt, merged.traces)]
    /\ pc' = "merged_written"
    /\ UNCHANGED <<stream, original, locations, merged, ordered, remerged,
                   encVars>>

\* nstream.merge_by_location() on the stream a merge returned
MergeAgain ==
    /\ pc = "merged"
    /\ merged.error = ""
    /\ remerged' = merge_by_location(merged.traces, None, "").result
    /\ pc' = "remerged"
    /\ UNCHANGED <<stream, original, locations, merged, ordered, written,
                   encVars>>

Next ==
    \/ MergeDefault
    \/ MergeLocations
    \/ OrderStream
    \/ WriteStream
    \/ WriteMerged
    \/ MergeAgain

Spec == Init /\ [][Next]_vars

----------------------------------------------------------------------------
(* A script that writes a stream in one of the formats *)

InitEncode ==
    /\ \/ /\ stream \in EncStreams
          /\ inventory = NoInventory
          /\ source = NoSource
       \/ /\ stream \in HeaderStreams
          /\ inventory \in Inventories
          /\ source \in Sources
       \/ /\ stream \in DirectoryStreams
          /\ inventory \in Inventories \ {NoInventory}
          /\ source = NoSource
    /\ original = stream
    /\ locations = None
    /\ merged = NoResult
    /\ ordered = NoResult
    /\ written = [format |-> "", result |-> NoResult]
    /\ remerged = NoResult
    /\ output = NoOutput
    /\ resource = NoResource
    /\ filename = NoFilename
    /\ files = NoFiles
    /\ pc = "start"

\* stream.write(resource, format=fmt, inventory=inventory, source=source)
\* with an open buffer as the resource
WriteResource ==
    /\ pc = "start"
    /\ \E fmt \in Formats :
        /\ written' = [format |-> fmt, result |-> WriteFormat(fmt, stream)]
        /\ output' = Encode(fmt, stream, inventory, source)
    /\ resource' = ResourceAfter("sink", output')
    /\ pc' = "encoded"
    /\ UNCHANGED <<stream, original, locations, merged, ordered, remerged,
                   inventory, source, filename, files>>

\* stream.write(path, format=fmt, inventory=inventory, source=source)
\* with the name of a file as the resource
WritePath ==
    /\ pc = "start"
    /\ \E fmt \in Formats :
        /\ written' = [format |-> fmt, result |-> WriteFormat(fmt, stream)]
        /\ output' = Encode(fmt, stream, inventory, source)
    /\ resource' = ResourceAfter("path", output')
    /\ pc' = "encoded_path"
    /\ UNCHANGED <<stream, original, locations, merged, ordered, remerged,
                   inventory, source, filename, files>>

\* iaga2002.get_filename(stats) and imfv122.get_filename(stats)
GetFilename ==
    /\ pc = "start"
    /\ \E stats \in FilenameStats :
        filename' = [called |-> TRUE, stats |-> stats,
                     iaga2002 |-> iaga2002_get_filename(stats),
                     imfv122 |-> imfv122_get_filename(stats)]
    /\ pc' = "named"
    /\ UNCHANGED <<stream, original, locations, merged, ordered, written,
                   remerged, inventory, source, output, resource, files>>

\* fdsnws2directory for the stream the service returned: the whole function
\* from "if not stream" to the end of the loop over the stations
WriteToDirectory ==
    /\ pc = "start"
    /\ inventory.given
    /\ source = NoSource
    /\ \E fmt \in Formats, date \in DirectoryDates :
        IF stream = <<>>
        THEN /\ files' = [NoFiles EXCEPT !.status = "returned 1",
                                         !.format = fmt]
             /\ stream' = stream
        ELSE LET m == MergedAndTrimmed(stream, date)
             IN  /\ stream' = merge_by_location(stream, None, "").self
                 /\ IF m.error # ""
                    THEN files' = [NoFiles EXCEPT !.status = "raised",
                                                  !.format = fmt,
                                                  !.error = m.error]
                    ELSE \E order \in StationOrders(StationsOf(m.traces)) :
                           LET w == WriteStations(m.traces, order, fmt,
                                                  inventory, source)
                           IN  files' =
                                 [status |-> IF w.error = "" THEN "returned"
                                             ELSE "raised",
                                  format |-> fmt, error |-> w.error, stream |-> m.traces,
                                  written |-> w.written]
    /\ pc' = "directory"
    /\ UNCHANGED <<original, locations, merged, ordered, written, remerged,
                   inventory, source, output, resource, filename>>

NextEncode ==
    \/ WriteResource
    \/ WritePath
    \/ GetFilename
    \/ WriteToDirectory

SpecEncode == InitEncode /\ [][NextEncode]_vars

----------------------------------------------------------------------------
(* Vocabulary of the properties *)

InIndices(st) == 1..Len(st)

\* the traces of st whose component is c
OfComponent(st, c) == {i \in InIndices(st) : component(st[i]) = c}

\* at most one trace for each of X, Y, Z, F
OnePerComponent(st) ==
    \A k \in 1..4 : Cardinality(OfComponent(st, COMPONENTS[k])) <= 1

\* two traces of one of X, Y, Z, F
DuplicateXYZF(st) ==
    \E k \in 1..4 : Cardinality(OfComponent(st, COMPONENTS[k])) >= 2

\* two traces with the same last channel letter, whatever the letter
DuplicateComponent(st) ==
    \E i, j \in InIndices(st) : i # j /\ component(st[i]) = component(st[j])

SameIdentity(st) ==
    \A i \in InIndices(st) :
        /\ st[i].network = st[1].network
        /\ st[i].station = st[1].station
        /\ st[i].delta = st[1].delta

\* the band and instrument letters of the channel code
SameChannelPrefix(st) ==
    \A i \in InIndices(st) : SubSeq(st[i].channel, 1, 2) = SubSeq(st[1].channel, 1, 2)

----------------------------------------------------------------------------
(* C1 *)

\* C1: order_stream(stream, [X,Y,Z,F]) on a non-empty stream with at most
\* one trace for each of X, Y, Z, F returns exactly 4 traces whose components
\* are X, Y, Z, F in that order: the input's trace of the component where
\* there is one, and otherwise a zero-length trace equal to the input's first
\* trace (network, station, location, sampling interval, start time) but for
\* the last letter of its channel, which is the component.
C1_OrderStream ==
    (pc = "ordered" /\ OnePerComponent(stream)) =>
        /\ ordered.error = ""
        /\ Len(ordered.traces) = 4
        /\ \A k \in 1..4 :
            LET c == COMPONENTS[k]
                o == ordered.traces[k]
            IN  /\ component(o) = c
                /\ \A i \in OfComponent(stream, c) : o = stream[i]
                /\ OfComponent(stream, c) = {} =>
                    /\ npts(o) = 0
                    /\ o.network = stream[1].network
                    /\ o.station = stream[1].station
                    /\ o.location = stream[1].location
                    /\ o.delta = stream[1].delta
                    /\ o.starttime = stream[1].starttime
                    /\ o.channel = <<stream[1].channel[1], stream[1].channel[2], c>>

\* a stream given as Z then X, with different start times, has been ordered
C1_Witness ==
    /\ pc = "ordered"
    /\ Len(stream) = 2
    /\ component(stream[1]) = "Z"
    /\ component(stream[2]) = "X"
    /\ stream[1].starttime # stream[2].starttime
    /\ ordered.error = ""

----------------------------------------------------------------------------
(* C2 *)

\* C2 as stated: every write of a stream holding two traces with the same
\* last channel letter fails with the multiple-identical-components error.
C2_AsStated ==
    (pc = "written" /\ DuplicateComponent(stream)) =>
        written.result.error = ErrMultiple

\* C2: writing, in any of the three formats, a stream that was not merged,
\* whose traces share network, station and sampling rate and that holds two
\* traces of one of the components X, Y, Z, F fails with the
\* multiple-identical-components error, whatever the location codes.
C2_DuplicateFails ==
    (pc = "written" /\ SameIdentity(stream) /\ DuplicateXYZF(stream)) =>
        written.result.error = ErrMultiple

\* two X traces of one station with different location codes were written
\* as IMFv1.22
C2_Witness ==
    /\ pc = "written"
    /\ written.format = "imfv122"
    /\ Len(stream) = 2
    /\ SameIdentity(stream)
    /\ component(stream[1]) = "X" /\ component(stream[2]) = "X"
    /\ stream[1].location # stream[2].location
    /\ written.result.error = ErrMultiple

----------------------------------------------------------------------------
(* C3 *)

MergedOnePerComponent ==
    /\ merged.error = ""
    /\ OnePerComponent(merged.traces)
    /\ pc = "merged_written" => written.result.error # ErrMultiple

\* C3 as stated: for every stream whose traces share network, station and
\* sampling rate, merge_by_location() leaves at most one trace per
\* component and the write that follows does not fail as ambiguous.
C3_AsStated ==
    (pc \in {"merged", "merged_written"} /\ SameIdentity(original)) =>
        MergedOnePerComponent

\* C3: for every stream whose traces share network, station, sampling rate
\* and the band and instrument letters of the channel code, the result of
\* merge_by_location() holds at most one trace for each of X, Y, Z, F, and
\* the write that follows does not fail with the ambiguous-component error.
C3_MergeThenWrite ==
    (/\ pc \in {"merged", "merged_written"}
     /\ SameIdentity(original)
     /\ SameChannelPrefix(original)) => MergedOnePerComponent

\* two X traces of different locations were merged and the result written
C3_Witness ==
    /\ pc = "merged_written"
    /\ Len(original) = 2
    /\ component(original[1]) = "X" /\ component(original[2]) = "X"
    /\ original[1].location # original[2].location
    /\ SameIdentity(original)
    /\ Len(merged.traces) = 1
    /\ written.result.error = ""

----------------------------------------------------------------------------
(* C4, C5: the streams of tests/test_stream.py *)

IsR1(tr) == tr.location = "R1" /\ tr.data = <<1, 2, 3>>
IsR2(tr) == tr.location = "R2" /\ tr.data = <<1, 2, 4>>

\* component X with R1 = [1,2,3] and R2 = [1,2,4], same start, same length
R1R2Stream(st) ==
    /\ Len(st) = 2
    /\ \/ IsR1(st[1]) /\ IsR2(st[2])
       \/ IsR2(st[1]) /\ IsR1(st[2])
    /\ st[1].starttime = st[2].starttime
    /\ TraceId([st[1] EXCEPT !.location = ""]) = TraceId([st[2] EXCEPT !.location = ""])

MergedData(d) ==
    /\ merged.error = ""
    /\ Len(merged.traces) = 1
    /\ merged.traces[1].data = d

----------------------------------------------------------------------------
(* Vocabulary of the merge properties *)

\* what merge groups by once the location code is erased
Key(tr) == <<tr.network, tr.station, tr.channel>>

\* the sample times of a trace
Times(tr) == {tr.starttime + k * tr.delta : k \in 0..(npts(tr) - 1)}

\* the sample of a trace at an absolute time, Masked where it has none
SampleAt(tr, t) ==
    IF t \in Times(tr) THEN tr.data[((t - tr.starttime) \div tr.delta) + 1]
    ELSE Masked

HasData(tr, t) == SampleAt(tr, t) # Masked

\* the location code of an input trace is in the locations list
Listed(tr) == tr.location \in Range(locations.list)

\* the input traces that take part in the merge
Taken == {i \in InIndices(original) : ~locations.given \/ Listed(original[i])}

\* two traces of one station and channel and of different location codes
TwoSources(st) ==
    /\ Len(st) = 2
    /\ Key(st[1]) = Key(st[2])
    /\ st[1].delta = st[2].delta
    /\ st[1].location # st[2].location

SameSpan(st) ==
    st[1].starttime = st[2].starttime /\ npts(st[1]) = npts(st[2])

\* position in the list of the location code of a trace
ListRank(tr) == CHOOSE k \in 1..Len(locations.list) : locations.list[k] = tr.location

\* the trace of a two-source stream that comes first in the precedence
\* order: lowest location code, or first listed location
First(st) ==
    IF locations.given
    THEN (IF ListRank(st[1]) < ListRank(st[2]) THEN st[1] ELSE st[2])
    ELSE (IF StrLess(st[1].location, st[2].location) THEN st[1] ELSE st[2])

Second(st) == IF First(st) = st[1] THEN st[2] ELSE st[1]

AfterMerge == pc \in {"merged", "merged_locations", "merged_written"}

\* both traces of a two-source stream take part in the merge
BothTaken(st) == ~locations.given \/ (Listed(st[1]) /\ Listed(st[2]))

\* one merged trace that holds the first source's value wherever both
\* sources have data
FirstWins(st) ==
    /\ merged.error = ""
    /\ Len(merged.traces) = 1
    /\ \A t \in Times(st[1]) \cap Times(st[2]) :
        (HasData(st[1], t) /\ HasData(st[2], t)) =>
            SampleAt(merged.traces[1], t) = SampleAt(First(st), t)

----------------------------------------------------------------------------
(* C6 *)

\* C6: for two traces of one station and channel that cover the same time
\* span, merge_by_location returns a single trace that keeps, wherever both
\* have data, the value of the trace that comes first in the precedence
\* order: the lowest location code without a locations list, whatever the
\* order of the traces in the stream, the first listed location with one.
C6_FirstInPrecedenceWins ==
    (/\ AfterMerge
     /\ TwoSources(original)
     /\ SameSpan(original)
     /\ BothTaken(original)) => FirstWins(original)

\* the part of C6 without a locations list
C6_DefaultOrderPart ==
    (/\ AfterMerge
     /\ ~locations.given
     /\ TwoSources(original)
     /\ SameSpan(original)) => FirstWins(original)

----------------------------------------------------------------------------
(* C7 *)

\* the traces of one station and channel are different sources (location
\* codes) that cover the same time span
SameSpanPerKey(st) ==
    \A i, j \in InIndices(st) : (i # j /\ Key(st[i]) = Key(st[j])) =>
        /\ st[i].location # st[j].location
        /\ st[i].delta = st[j].delta
        /\ st[i].starttime = st[j].starttime
        /\ npts(st[i]) = npts(st[j])

\* C7: for sources that cover the same time span, where the source with
\* precedence has a masked sample and the other source of the component has
\* a value, the merged trace holds the other source's value; a merged sample
\* is missing only where every source is missing at that time.
C7_MissingFallsBack ==
    (/\ pc = "merged"
     /\ merged.error = ""
     /\ SameSpanPerKey(original)) =>
        /\ TwoSources(original) =>
            \A t \in Times(original[1]) :
                (~HasData(First(original), t) /\ HasData(Second(original), t)) =>
                    /\ Len(merged.traces) = 1
                    /\ SampleAt(merged.traces[1], t) = SampleAt(Second(original), t)
        /\ \A k \in InIndices(merged.traces) : \A t \in Times(merged.traces[k]) :
            ~HasData(merged.traces[k], t) =>
                \A i \in InIndices(original) :
                    Key(original[i]) = Key(merged.traces[k]) => ~HasData(original[i], t)

----------------------------------------------------------------------------
(* C8 *)

Min(a, b) == IF a <= b THEN a ELSE b
Max(a, b) == IF a >= b THEN a ELSE b

\* C8: two traces of one component that start at different times are
\* reconciled by absolute time: the merged trace spans from the earliest
\* start to the latest end, and at every time where both have data the value
\* is chosen by location precedence, as for equal start times.
C8_OffsetByPrecedence ==
    (/\ pc = "merged"
     /\ TwoSources(original)
     /\ original[1].starttime # original[2].starttime) =>
        /\ FirstWins(original)
        /\ merged.traces[1].starttime
               = Min(original[1].starttime, original[2].starttime)
        /\ endtime(merged.traces[1])
               = Max(endtime(original[1]), endtime(original[2]))

\* the part of C8 about the span of the merged trace
C8_SpanPart ==
    (/\ pc = "merged"
     /\ TwoSources(original)
     /\ original[1].starttime # original[2].starttime) =>
        /\ merged.error = ""
        /\ Len(merged.traces) = 1
        /\ merged.traces[1].starttime
               = Min(original[1].starttime, original[2].starttime)
        /\ endtime(merged.traces[1])
               = Max(endtime(original[1]), endtime(original[2]))

----------------------------------------------------------------------------
(* C9 *)

\* the input traces with a listed location code, in stream order
ListedTraces == SelectSeq(original, Listed)

\* C9: with an explicit list of locations the returned stream holds data
\* only from traces whose location code is in the list: every trace of the
\* result has the station and channel of a listed input trace, every sample
\* of the result is the sample of such a trace at that time, and the result
\* is the one the listed traces alone give.
C9_OnlyListedLocations ==
    (pc = "merged_locations" /\ merged.error = "") =>
        /\ \A k \in InIndices(merged.traces) :
            LET m == merged.traces[k]
            IN  /\ \E i \in Taken : Key(original[i]) = Key(m)
                /\ \A t \in Times(m) : HasData(m, t) =>
                    \E i \in Taken :
                        /\ Key(original[i]) = Key(m)
                        /\ SampleAt(original[i], t) = SampleAt(m, t)
        /\ merged = merge_by_location(ListedTraces, locations, "").result

\* a stream with a listed and an unlisted source of one channel, holding
\* different samples at the same time, was merged
C9_Witness ==
    /\ pc = "merged_locations"
    /\ TwoSources(original)
    /\ SameSpan(original)
    /\ original[1].data # original[2].data
    /\ ~Listed(original[1])
    /\ Listed(original[2])
    /\ merged.error = ""
    /\ Len(merged.traces) = 1

----------------------------------------------------------------------------
(* C10 *)

\* the traces that take part and share station and channel share the rate
RatesAgree ==
    \A i, j \in Taken :
        Key(original[i]) = Key(original[j]) => original[i].delta = original[j].delta

\* every sample of the result is the sample, at that time, of an input trace
\* of the same network, station and channel
OnlySameKeyCombined ==
    \A k \in InIndices(merged.traces) :
        LET m == merged.traces[k]
        IN  \A t \in Times(m) : HasData(m, t) =>
                \E i \in Taken :
                    /\ Key(original[i]) = Key(m)
                    /\ SampleAt(original[i], t) = SampleAt(m, t)

\* one trace of the result for each (network, station, channel) of S
OneTracePerKey(S) ==
    /\ \A k, l \in InIndices(merged.traces) :
        Key(merged.traces[k]) = Key(merged.traces[l]) => k = l
    /\ {Key(merged.traces[k]) : k \in InIndices(merged.traces)}
           = {Key(original[i]) : i \in S}

\* C10 as stated: the result holds one trace per distinct (network,
\* station, channel) of the input.
C10_AsStated ==
    (pc \in {"merged", "merged_locations"}) =>
        /\ merged.error = ""
        /\ OnlySameKeyCombined
        /\ OneTracePerKey(InIndices(original))

\* C10: merge_by_location combines only traces that agree on network,
\* station and channel, and whenever it returns a stream (the merge raises
\* when traces of one network, station and channel differ in sampling rate)
\* the result holds one trace per distinct (network, station, channel) of
\* the traces that take part in the merge: all traces of the input without
\* a locations list, the traces with a listed location code with one.
C10_OneTracePerStationChannel ==
    (pc \in {"merged", "merged_locations"}) =>
        /\ RatesAgree => merged.error = ""
        /\ merged.error = "" => (OnlySameKeyCombined /\ OneTracePerKey(Taken))

\* two traces of one channel at two stations were merged into two traces
C10_Witness ==
    /\ pc = "merged"
    /\ Len(original) = 2
    /\ original[1].station # original[2].station
    /\ original[1].channel = original[2].channel
    /\ original[1].delta = original[2].delta
    /\ merged.error = ""
    /\ Len(merged.traces) = 2

----------------------------------------------------------------------------
(* C11 *)

\* C11: merge_by_location, with or without a list of locations, leaves the
\* stream it is called on untouched: after the call the input holds the same
\* traces with the same location codes and the same samples as before.
C11_InputUntouched ==
    (pc \in {"merged", "merged_locations"}) => stream = original

\* the part of C11 without a locations list: the merge works on a copy
C11_DefaultPart ==
    (pc = "merged") => stream = original

----------------------------------------------------------------------------
(* C12 *)

----------------------------------------------------------------------------
(* Vocabulary of the encoder properties *)

Encoded(fmt) == pc = "encoded" /\ written.format = fmt

\* the write got past its validation; the four traces in component order
Accepted(fmt) == Encoded(fmt) /\ written.result.error = ""

OrderedTraces == written.result.traces

\* the calendar days on which the stream holds samples
DaysOf(st) ==
    UNION {{DayStart(st[i].starttime), DayStart(endtime(st[i]))} :
               i \in {j \in 1..Len(st) : npts(st[j]) > 0}}

----------------------------------------------------------------------------
(* C13 *)

\* C13: every stream whose traces collectively span two calendar days fails
\* IAGA-2002 encoding with the day-range error, whichever components carry
\* the earlier and the later day and whatever the order of the traces.
C13_TwoDaysFail ==
    (Accepted("iaga2002") /\ Cardinality(DaysOf(stream)) = 2)
        => output.error = ErrDay

\* the part of C13 that the code keeps: the error is raised when the first
\* of the ordered traces starts on the earlier day
C13_EarlierDayFirst ==
    (/\ Accepted("iaga2002")
     /\ Cardinality(DaysOf(stream)) = 2
     /\ DayStart(OrderedTraces[1].starttime) = DayStart(MinStarttime(stream)))
        => output.error = ErrDay

\* X on 2019-01-03 and Y on 2019-01-02: the file is written without error
C13_LaterDayFirst ==
    /\ Accepted("iaga2002")
    /\ Cardinality(DaysOf(stream)) = 2
    /\ component(stream[1]) = "Y"
    /\ DayStart(OrderedTraces[1].starttime) > DayStart(MinStarttime(stream))
    /\ output.error = ""
    /\ Len(output.rows) > 0

----------------------------------------------------------------------------
(* C14 *)

\* the IAGA-2002 file was written, and all samples of the stream lie on one
\* calendar day
Iaga2002OfOneDay ==
    /\ Accepted("iaga2002")
    /\ output.error = ""
    /\ Cardinality(DaysOf(stream)) = 1

\* the positions of the rows with timestamp t
RowsAt(t) == {r \in 1..Len(output.rows) : output.rows[r].timestamp = t}

\* a sample the IAGA-2002 and internet writers give as its own value; the
\* others (masked, 0, at or above the null value) are the subject of C17
OwnValue(v) == v # Masked /\ v # 0 /\ v < NULL_VALUE_IAGA2002

\* C14: in IAGA-2002 output for a trace that starts k sampling intervals
\* after 00:00:00 of its day, the rows from 00:00:00 up to the interval
\* before the trace start show the null value 99999.00 in that component's
\* column, and the i-th sample of the trace is on the row whose timestamp is
\* trace start + i * interval: values are placed by absolute time, not by
\* array index.
C14_PlacedByTime ==
    Iaga2002OfOneDay =>
        \A c \in 1..4 :
            LET tr == OrderedTraces[c]
                k == (tr.starttime - DayStart(tr.starttime)) \div tr.delta
            IN  npts(tr) > 0 =>
                    /\ \A j \in 0..(k - 1) :
                          \E r \in RowsAt(DayStart(tr.starttime) + j * tr.delta) :
                              output.rows[r].components[c] = NULL_VALUE_IAGA2002
                    /\ \A i \in 0..(npts(tr) - 1) :
                          \E r \in RowsAt(tr.starttime + i * tr.delta) :
                              output.rows[r].components[c] =
                                  IF OwnValue(tr.data[i + 1]) THEN tr.data[i + 1]
                                  ELSE NULL_VALUE_IAGA2002

\* test_iaga2002_begin_missing: 1., 2., 3. from 00:01:00 give a null row at
\* 00:00:00 and the third sample at 00:03:00
C14_Witness ==
    /\ Iaga2002OfOneDay
    /\ stream = TestDataBeginMissing
    /\ Iaga2002RowText(output.rows[1])
         = "2019-01-02 00:00:00.000 002     99999.00  99999.00  99999.00  99999.00"
    /\ Iaga2002RowText(output.rows[4])
         = "2019-01-02 00:03:00.000 002         3.00  99999.00  99999.00  99999.00"

----------------------------------------------------------------------------
(* C15 *)

\* the greatest element of a set of times
Latest(S) == CHOOSE m \in S : \A x \in S : x <= m

\* the end times of the traces of st that hold samples
SampleEnds(st) ==
    {endtime(st[i]) : i \in {j \in 1..Len(st) : npts(st[j]) > 0}}

\* the body holds one row per sampling interval from 00:00:00 of the day of
\* the first ordered trace, in increasing time order
RowPerInterval ==
    /\ Len(output.rows) >= 1
    /\ \A r \in 1..Len(output.rows) :
          output.rows[r].timestamp =
              DayStart(OrderedTraces[1].starttime)
                  + (r - 1) * OrderedTraces[1].delta

LastRowTime == output.rows[Len(output.rows)].timestamp

\* C15 as stated: the IAGA-2002 body holds exactly one row per sampling
\* interval, in strictly increasing time order, from 00:00:00 of the day up
\* to and including the latest end time among the four ordered traces; its
\* last data row is the row of the latest sample in the stream.
C15_AsStated ==
    (Accepted("iaga2002") /\ output.error = "") =>
        /\ RowPerInterval
        /\ LastRowTime = Latest({endtime(OrderedTraces[c]) : c \in 1..4})
        /\ LastRowTime = Latest(SampleEnds(stream))

\* C15 amended: one row per sampling interval from 00:00:00 of the day up to
\* and including the latest end time among the four ordered traces, where the
\* stand-in of a missing component ends at the start time of the first trace
\* of the stream; when the first trace of the stream is one of the X, Y, Z, F
\* traces the last row is the row of the latest sample of those traces.
C15_RowPerInterval ==
    (Accepted("iaga2002") /\ output.error = "") =>
        /\ RowPerInterval
        /\ LastRowTime = Latest({endtime(OrderedTraces[c]) : c \in 1..4})
        /\ component(stream[1]) \in {"X", "Y", "Z", "F"}
              => LastRowTime = Latest(SampleEnds(OrderedTraces))

\* test_iaga2002: 1., 2., 3. from 00:00:00 give three rows, the last one for
\* the third sample
C15_Witness ==
    /\ Accepted("iaga2002")
    /\ stream = TestData
    /\ Len(output.rows) = 3
    /\ Iaga2002RowText(output.rows[3])
         = "2019-01-02 00:02:00.000 002         3.00  99999.00  99999.00  99999.00"

\* the first trace of the stream is an H trace that starts after the end of
\* the Y trace: the body ends with rows that hold no sample
C15_StandInEnd ==
    /\ Accepted("iaga2002")
    /\ stream = HFirst
    /\ Len(output.rows) = 3
    /\ LastRowTime > Latest(SampleEnds(OrderedTraces))
    /\ LastRowTime < Latest(SampleEnds(stream))

----------------------------------------------------------------------------
(* C16 *)

\* the trace holds a sample at time t
Covers(tr, t) == npts(tr) > 0 /\ tr.starttime <= t /\ t <= endtime(tr)

AllNull == <<NULL_VALUE_IAGA2002, NULL_VALUE_IAGA2002,
             NULL_VALUE_IAGA2002, NULL_VALUE_IAGA2002>>

\* the row of the n-th sample time of the day of the first ordered trace
RowOfDay(n) ==
    /\ n <= Len(output.rows)
    /\ output.rows[n].timestamp =
           DayStart(OrderedTraces[1].starttime)
               + (n - 1) * OrderedTraces[1].delta

\* the rows of sample times that no trace covers hold four null values
UncoveredAreNull ==
    \A r \in 1..Len(output.rows) :
        (\A c \in 1..4 : ~Covers(OrderedTraces[c], output.rows[r].timestamp))
            => output.rows[r].components = AllNull

\* C16 as stated: IAGA-2002 output covers exactly one whole calendar day: the
\* body holds a row for every sample time in [00:00:00, +24h) of the day of
\* the first trace's start time, and sample times of that day that no trace
\* covers are written with the null value in all four columns.
C16_WholeDay ==
    (Accepted("iaga2002") /\ output.error = "") =>
        /\ Len(output.rows) = DaySeconds \div OrderedTraces[1].delta
        /\ \A n \in 1..(DaySeconds \div OrderedTraces[1].delta) : RowOfDay(n)
        /\ UncoveredAreNull

\* C16 amended: IAGA-2002 output covers the calendar day of the first ordered
\* trace's start time from 00:00:00 up to the latest end time of the ordered
\* traces and no further: the body holds a row for every sample time of that
\* span, no row after it, and the sample times of the span that no trace
\* covers are written with the null value in all four columns.
C16_DayUpToLatestEnd ==
    (Accepted("iaga2002") /\ output.error = "") =>
        LET tend == Latest({endtime(OrderedTraces[c]) : c \in 1..4})
            n == ((tend - DayStart(OrderedTraces[1].starttime))
                     \div OrderedTraces[1].delta) + 1
        IN  /\ Len(output.rows) = n
            /\ \A m \in 1..n : RowOfDay(m)
            /\ UncoveredAreNull

\* X at 00:00:00 and Y at 00:02:00, one sample each: three rows, the one of
\* 00:01:00 with four null values, and nothing up to the end of the day
C16_Witness ==
    /\ Accepted("iaga2002")
    /\ output.error = ""
    /\ Len(stream) = 2
    /\ Len(output.rows) = 3
    /\ output.rows[1].components[1] = Scale
    /\ output.rows[2].components = AllNull
    /\ output.rows[3].components[2] = 11 * Scale

----------------------------------------------------------------------------
(* C17 *)

\* an IAGA-2002 or internet file was written
TextRowsWritten ==
    /\ Accepted("iaga2002") \/ Accepted("internet")
    /\ output.error = ""

\* C17: in IAGA-2002 and internet output a value field shows the null value
\* 99999.00 exactly when the sample of that component at that timestamp is
\* missing (masked or not covered by the trace) or its value is >= 99999.00;
\* every other sample value, 0 and negative values included, is written as
\* its own value with 2 decimals.
C17_NullExactlyWhenMissing ==
    TextRowsWritten =>
        \A r \in 1..Len(output.rows) : \A c \in 1..4 :
            LET v == SampleAt(OrderedTraces[c], output.rows[r].timestamp)
            IN  output.rows[r].components[c] =
                    IF v = Masked \/ v >= NULL_VALUE_IAGA2002
                    THEN NULL_VALUE_IAGA2002
                    ELSE v

\* the part of C17 that the code keeps: every sample other than 0 is written
\* as stated, negative values included
C17_ExceptZero ==
    TextRowsWritten =>
        \A r \in 1..Len(output.rows) : \A c \in 1..4 :
            LET v == SampleAt(OrderedTraces[c], output.rows[r].timestamp)
            IN  v # 0 =>
                    output.rows[r].components[c] =
                        IF v = Masked \/ v >= NULL_VALUE_IAGA2002
                        THEN NULL_VALUE_IAGA2002
                        ELSE v

\* a sample of value 0 at 00:01:00 is written as 99999.00
C17_ZeroAsNull ==
    /\ Accepted("iaga2002")
    /\ output.error = ""
    /\ stream[1].data = <<0>>
    /\ Iaga2002RowText(output.rows[2])
         = "2019-01-02 00:01:00.000 002     99999.00  99999.00  99999.00  99999.00"

\* a sample of value -12.50 at 00:01:00 is written as -12.50
C17_NegativeKept ==
    /\ Accepted("internet")
    /\ output.error = ""
    /\ stream[1].data = <<-1250>>
    /\ InternetRowText("OTT", 60, output.rows[1])
         = "OTT 2019 002:00:01:00 -12.50 99999.00 99999.00 99999.00"

----------------------------------------------------------------------------
(* C18 *)

\* the header of an IAGA-2002 file was written
HeaderWritten == Encoded("iaga2002") /\ output.header # <<>>

\* C18: every IAGA-2002 header and comment record, for any station name,
\* source text and station code, is exactly 70 characters long before its
\* CRLF: a space in column 1, the label from column 2 in a 23-character
\* field, the value in a 44-character field, and the vertical bar in
\* column 70.
C18_Records70 ==
    HeaderWritten =>
        \A i \in 1..Len(output.header) : Len(output.header[i]) = 70

\* the part of C18 that the code keeps: the records are 70 characters long
\* when the source text and the station name have at most 44 characters
C18_ShortValues70 ==
    (/\ HeaderWritten
     /\ source.given => Len(source.text) <= 44
     /\ inventory.given =>
            Len(inventory.name) <= 44 /\ Len(inventory.source) <= 44)
        => \A i \in 1..Len(output.header) : Len(output.header[i]) = 70

\* a source text of 45 characters gives a record of 71 characters
C18_LongSource ==
    /\ HeaderWritten
    /\ source.given
    /\ Len(source.text) = 45
    /\ Len(output.header) = 14
    /\ Len(output.header[2]) = 71
    /\ Len(output.header[1]) = 70

----------------------------------------------------------------------------
(* C19 *)

\* f is the IMFv1.22 field of the sample v: 999999 for a missing sample and
\* for a sample at or above 99999.99, else 10 * v cut to an integer
IsFieldOf(f, v) ==
    IF v = Masked \/ v >= NULL_VALUE_IMFV122 THEN f = 999999
    ELSE IF v >= 0 THEN 10 * f <= v /\ v < 10 * f + 10
    ELSE 10 * f - 10 < v /\ v <= 10 * f

\* rec is the record of minute m of the day of the first ordered trace
IsRecordOfMinute(rec, m) ==
    /\ Len(rec) = 4
    /\ \A c \in 1..4 :
          IsFieldOf(rec[c],
                    SampleAt(OrderedTraces[c],
                             DayStart(OrderedTraces[1].starttime) + 60 * m))

\* C19: for any accepted stream of 60-second traces, IMFv1.22 output is
\* exactly 24 hour blocks in hour order 00 to 23, each made of one header
\* line followed by 30 data lines; data line k (k = 0..29) of hour h holds
\* the record of minute 2k followed, after two spaces, by the record of
\* minute 2k+1 of that hour, so the output holds exactly 1440 minute records,
\* one per minute of the calendar day, in time order.
C19_HourBlocks ==
    Accepted("imfv122") =>
        /\ output.error = ""
        /\ Len(output.rows) = 24 * 31
        /\ \A h \in 0..23 :
              LET head == output.rows[31 * h + 1]
              IN  /\ head.line = -1
                  /\ head.hour = h
                  /\ head.records = <<>>
                  /\ head.title =
                         HourHeader(OrderedTraces[1].station,
                                    DayStart(OrderedTraces[1].starttime),
                                    h, inventory)
                  /\ \A k \in 0..29 :
                        LET l == output.rows[31 * h + 2 + k]
                        IN  /\ l.line = k
                            /\ l.hour = h
                            /\ Len(l.records) = 2
                            /\ IsRecordOfMinute(l.records[1], 60 * h + 2 * k)
                            /\ IsRecordOfMinute(l.records[2],
                                                60 * h + 2 * k + 1)

\* test_imfv122_begin_missing: 1., 2., 3. from 00:01:00 give the header of
\* hour 00, then the null record and 10 on the first line, 20 and 30 on the
\* second
C19_Witness ==
    /\ Accepted("imfv122")
    /\ stream = TestDataBeginMissing
    /\ Len(output.rows) = 744
    /\ output.rows[1].title
         = "OTT JAN0219 002 00 XYZF R OTT 00000000 000000 RRRRRRRRRRRRRRRR"
    /\ ImfLineText(output.rows[2])
         = " 999999  999999  999999 999999       10  999999  999999 999999"
    /\ ImfLineText(output.rows[3])
         = "     20  999999  999999 999999       30  999999  999999 999999"
    /\ output.rows[32].title
         = "OTT JAN0219 002 01 XYZF R OTT 00000000 000000 RRRRRRRRRRRRRRRR"

----------------------------------------------------------------------------
(* C20 *)

\* the field of component c for minute m of the day
FieldAt(m, c) ==
    output.rows[31 * (m \div 60) + 2 + ((m % 60) \div 2)].records[(m % 2) + 1][c]

\* C20: each IMFv1.22 value field is the sample value x 10 truncated to an
\* integer (1.0 is written as 10); a sample that is missing, not covered by
\* the trace, belongs to a component with no trace, or is >= 99999.99 is
\* written as 999999; a sample of value 0 is written as 0, not as the null
\* value.
C20_TimesTenTruncated ==
    (Accepted("imfv122") /\ output.error = "") =>
        \A m \in 0..(DayIntervals - 1) : \A c \in 1..4 :
            LET v == SampleAt(OrderedTraces[c],
                              DayStart(OrderedTraces[1].starttime) + 60 * m)
                f == FieldAt(m, c)
            IN  /\ npts(OrderedTraces[c]) = 0 => f = 999999
                /\ v = Masked => f = 999999
                /\ v >= NULL_VALUE_IMFV122 => f = 999999
                /\ v = 0 => f = 0
                /\ v = Scale => f = 10
                /\ (v > 0 /\ v < NULL_VALUE_IMFV122) =>
                       (10 * f <= v /\ v < 10 * (f + 1))
                /\ (v < 0 /\ v # Masked) =>
                       (10 * (f - 1) < v /\ v <= 10 * f)

\* 1.0, 0.0, 2.0 from 00:01:00: the second line of hour 00 holds 0 for the
\* sample of value 0 and 20 for the sample 2.0
C20_Witness ==
    /\ Accepted("imfv122")
    /\ stream[1].data = <<Scale, 0, 2 * Scale>>
    /\ ImfLineText(output.rows[2])
         = " 999999  999999  999999 999999       10  999999  999999 999999"
    /\ ImfLineText(output.rows[3])
         = "      0  999999  999999 999999       20  999999  999999 999999"

\* -12.50 is written as -125 and 12345.67 as 123456
C20_Truncated ==
    /\ Accepted("imfv122")
    /\ \/ stream[1].data = <<-1250>> /\ FieldAt(1, 1) = -125
       \/ stream[1].data = <<1234567>> /\ FieldAt(1, 1) = 123456

----------------------------------------------------------------------------
(* C21 *)

\* the stream passes the checks that come before the interval check: the
\* traces agree on network, station and sampling rate, the stream is not
\* empty and no component has several traces
PassesEarlierChecks(st) ==
    /\ st # <<>>
    /\ \A i, j \in 1..Len(st) :
          /\ st[i].network = st[j].network
          /\ st[i].station = st[j].station
          /\ st[i].delta = st[j].delta
          /\ (i # j /\ component(st[i]) \in {"X", "Y", "Z", "F"})
                => component(st[i]) # component(st[j])

\* C21 as stated: IMFv1.22 encoding of a stream whose sampling interval is
\* not exactly 60 seconds fails with the 'Only minute data is supported'
\* error; it succeeds on the interval check exactly when the interval of the
\* first ordered trace is 60 seconds.
C21_AsStated ==
    (Encoded("imfv122") /\ \E i \in 1..Len(stream) : stream[i].delta # 60)
        => output.error = ErrMinute

\* C21 amended: IMFv1.22 encoding of a stream that passes the identity,
\* empty-stream and ambiguous-component checks fails with the 'Only minute
\* data is supported' error exactly when the sampling interval of the first
\* ordered trace is not 60 seconds, and is written when it is 60 seconds.
C21_IntervalCheck ==
    (Encoded("imfv122") /\ PassesEarlierChecks(stream)) =>
        LET first == order_stream(stream, COMPONENTS).traces[1]
        IN  /\ (output.error = ErrMinute) <=> (first.delta # 60)
            /\ first.delta = 60 => output.error = ""

\* a one-second X trace is refused with the interval error
C21_Witness ==
    /\ Encoded("imfv122")
    /\ Len(stream) = 1
    /\ stream[1].delta = 1
    /\ output.error = ErrMinute
    /\ output.rows = <<>>

\* two one-second X traces are refused with another error
C21_OtherErrorFirst ==
    /\ Encoded("imfv122")
    /\ Len(stream) = 2
    /\ stream[1].delta = 1
    /\ stream[2].delta = 1
    /\ output.error = ErrMultiple

----------------------------------------------------------------------------
(* C22 *)

\* the least element of a set of times
Earliest(S) == CHOOSE m \in S : \A x \in S : m <= x

\* C22: internet-format output holds exactly one line per sampling interval
\* from the earliest start time to the latest end time among the traces, in
\* increasing time order, with no clipping to a calendar day: a stream that
\* spans several days is written in full and never raises a day-range error.
C22_EarliestToLatest ==
    Accepted("internet") =>
        LET first == Earliest({OrderedTraces[c].starttime : c \in 1..4})
            last == Latest({endtime(OrderedTraces[c]) : c \in 1..4})
            delta == OrderedTraces[1].delta
        IN  /\ output.error = ""
            /\ Len(output.rows) = ((last - first) \div delta) + 1
            /\ \A r \in 1..Len(output.rows) :
                  output.rows[r].timestamp = first + (r - 1) * delta
            /\ \A c \in 1..4 : \A i \in 1..npts(OrderedTraces[c]) :
                  \E r \in 1..Len(output.rows) :
                      output.rows[r].timestamp =
                          OrderedTraces[c].starttime + (i - 1) * delta

\* Y from 2019-01-02T00:00:00 and X on 2019-01-03T00:00:00: 1441 lines, the
\* first one of 2019-01-02 and the last one of 2019-01-03
C22_Witness ==
    /\ Accepted("internet")
    /\ output.error = ""
    /\ Cardinality(DaysOf(stream)) = 2
    /\ Len(output.rows) = DayIntervals + 1
    /\ InternetRowText("OTT", 60, output.rows[1])
         = "OTT 2019 002:00:00:00 99999.00 11.00 99999.00 99999.00"
    /\ InternetRowText("OTT", 60, output.rows[DayIntervals + 1])
         = "OTT 2019 003:00:00:00 1.00 99999.00 99999.00 99999.00"

----------------------------------------------------------------------------
(* C23 *)

\* the lines of the internet file that was written
LinesWritten == InternetLines(OrderedTraces, output.rows)

\* "OTT 2019 002:00:00:00" and four values follow: the length of a line up to
\* the end of a timestamp of whole seconds
WholeSecondsLine(row) ==
    "OTT 2019 " \o DayOfYearText(row.timestamp) \o ":"
        \o ClockText(row.timestamp) \o " "
        \o Fmt2f(row.components[1]) \o " " \o Fmt2f(row.components[2]) \o " "
        \o Fmt2f(row.components[3]) \o " " \o Fmt2f(row.components[4])

MillisecondsLine(row) ==
    "OTT 2019 " \o DayOfYearText(row.timestamp) \o ":"
        \o ClockText(row.timestamp) \o ".000 "
        \o Fmt2f(row.components[1]) \o " " \o Fmt2f(row.components[2]) \o " "
        \o Fmt2f(row.components[3]) \o " " \o Fmt2f(row.components[4])

InternetOfOtt ==
    /\ Accepted("internet")
    /\ output.error = ""
    /\ OrderedTraces[1].station = "OTT"

\* C23 as stated: in internet-format output the timestamp carries fractional
\* seconds (.mmm) only when the sampling interval is less than 1 second; for
\* an interval of exactly 1 second or more the timestamp ends at whole
\* seconds.
C23_AsStated ==
    (InternetOfOtt /\ OrderedTraces[1].delta >= 1) =>
        LET lines == LinesWritten
        IN  \A r \in 1..Len(output.rows) :
                lines[r] = WholeSecondsLine(output.rows[r])

\* C23 amended: in internet-format output the timestamp carries fractional
\* seconds (.mmm) when the sampling interval is 1 second or less (a sampling
\* rate of 1 Hz or more); for an interval of more than 1 second the
\* timestamp ends at whole seconds.
C23_FractionUpToOneSecond ==
    InternetOfOtt =>
        LET lines == LinesWritten
        IN  \A r \in 1..Len(output.rows) :
                lines[r] =
                    IF OrderedTraces[1].delta <= 1
                    THEN MillisecondsLine(output.rows[r])
                    ELSE WholeSecondsLine(output.rows[r])

\* one-second data: the line of the first sample carries the milliseconds
C23_Witness ==
    /\ InternetOfOtt
    /\ OrderedTraces[1].delta = 1
    /\ Len(stream) = 1
    /\ LinesWritten[1]
         = "OTT 2019 002:00:00:00.000 1.00 99999.00 99999.00 99999.00"

\* one-minute data: whole seconds
C23_MinuteData ==
    /\ InternetOfOtt
    /\ stream = TestData
    /\ LinesWritten[3] = "OTT 2019 002:00:02:00 3.00 99999.00 99999.00 99999.00"

----------------------------------------------------------------------------
(* C24 *)

\* two traces of the stream differ in network, station or sampling rate
Inconsistent(st) ==
    \E i, j \in 1..Len(st) :
        \/ st[i].network # st[j].network
        \/ st[i].station # st[j].station
        \/ st[i].delta # st[j].delta

\* C24: is_common_traces(stream, fields) returns true exactly when every
\* trace of the stream has the same value as the first trace for every
\* listed field (true for an empty stream and for a single trace), and each
\* of the three encoders fails with the 'same station and sampling rate'
\* error exactly when the traces of the input stream, including traces of
\* components other than X, Y, Z, F, differ in network, station or sampling
\* rate.
C24_CommonTraces ==
    (pc = "encoded") =>
        /\ is_common_traces(stream, CommonStats) <=> ~Inconsistent(stream)
        /\ is_common_traces(stream, <<"station">>)
              <=> \A i \in 1..Len(stream) : stream[i].station = stream[1].station
        /\ Len(stream) <= 1 => is_common_traces(stream, CommonStats)
        /\ (output.error = ErrCommon) <=> Inconsistent(stream)

\* an X trace of OTT and an H trace of SNK: the write fails with the error
\* of the identity check
C24_Witness ==
    /\ pc = "encoded"
    /\ Len(stream) = 2
    /\ component(stream[2]) = "H"
    /\ stream[2].station # stream[1].station
    /\ stream[2].delta = stream[1].delta
    /\ output.error = ErrCommon

\* an empty stream passes the identity check and fails the next one
C24_EmptyIsCommon ==
    /\ pc = "encoded"
    /\ stream = <<>>
    /\ is_common_traces(stream, CommonStats)
    /\ output.error = ErrEmpty

----------------------------------------------------------------------------
(* C25: the file names of the two formats *)

Named == pc = "named"

\* the data-type letter and the interval code the statement gives
LetterStated(location) ==
    IF location # "" /\ FirstChar(location) = "D" THEN "d" ELSE "v"

IntervalStated(rate_code) ==
    CASE rate_code = "L" -> "sec"
      [] rate_code = "U" -> "min"
      [] OTHER -> "raw"

\* C25: the IAGA-2002 name is the lowercase station code, the start date as
\* YYYYMMDD, the letter d for a location code starting with D and v
\* otherwise, the interval code sec for L, min for U and raw otherwise, a dot
\* and the interval code again; the IMFv1.22 name is JAN, the 2-digit day,
\* the 2-digit year, a dot and the uppercase station code; the network code
\* and the samples of the trace do not change the names
C25_Filenames ==
    Named =>
        LET stats == filename.stats
            day == ZeroPad((stats.starttime \div DaySeconds) + 1, 2)
            lower == IF stats.station = "OTT" THEN "ott" ELSE stats.station
            upper == IF stats.station = "ott" THEN "OTT" ELSE stats.station
        IN  /\ filename.iaga2002 =
                 lower \o "201901" \o day \o LetterStated(stats.location)
                     \o IntervalStated(stats.channel[1]) \o "."
                     \o IntervalStated(stats.channel[1])
            /\ filename.imfv122 = "JAN" \o day \o "19." \o upper
            /\ \A net \in {"C2", ""}, data \in {<<>>, <<2 * Scale, Masked>>} :
                 LET other == [stats EXCEPT !.network = net, !.data = data]
                 IN  /\ iaga2002_get_filename(other) = filename.iaga2002
                     /\ imfv122_get_filename(other) = filename.imfv122

\* the stats of the tests on 2019-01-02: OTT, location R0 there and R1 here
C25_Witness ==
    /\ Named
    /\ filename.stats.station = "OTT"
    /\ filename.stats.location = "R1"
    /\ filename.iaga2002 = "ott20190102vmin.min"
    /\ filename.imfv122 = "JAN0219.OTT"

\* a definitive second trace and a trace without a location code
C25_Definitive ==
    /\ Named
    /\ filename.stats.location = "D0"
    /\ filename.iaga2002 = "ott20190102dsec.sec"

C25_NoLocation ==
    /\ Named
    /\ filename.stats.location = ""
    /\ filename.iaga2002 = "ott20190102vraw.raw"

----------------------------------------------------------------------------
(* C26: who opens and closes the resource *)

WrittenToSink == pc = "encoded"
WrittenToPath == pc = "encoded_path"

\* C26: write() given an open sink neither opens nor closes it, whether it
\* returns or raises; write() given a path opens the file, and has closed it
\* when it returns
C26_SinkAndPath ==
    /\ WrittenToSink =>
         /\ resource.kind = "sink"
         /\ ~resource.opened
         /\ ~resource.closed
    /\ WrittenToPath =>
         /\ resource.kind = "path"
         /\ resource.opened
         /\ output.error = "" => resource.closed

\* a sink after a write that returned, a sink after a write that raised, and
\* a path after a write that returned
C26_Witness ==
    /\ WrittenToSink
    /\ output.error = ""
    /\ Len(output.rows) > 0
    /\ resource = [kind |-> "sink", opened |-> FALSE, closed |-> FALSE]

C26_SinkAfterError ==
    /\ WrittenToSink
    /\ output.error # ""
    /\ resource = [kind |-> "sink", opened |-> FALSE, closed |-> FALSE]

C26_PathClosed ==
    /\ WrittenToPath
    /\ output.error = ""
    /\ Len(output.rows) > 0
    /\ resource = [kind |-> "path", opened |-> TRUE, closed |-> TRUE]

\* a write to a path that raises does not return: the file it opened is
\* not closed by write()
C26_PathOpenAfterError ==
    /\ WrittenToPath
    /\ output.error # ""
    /\ resource = [kind |-> "path", opened |-> TRUE, closed |-> FALSE]

----------------------------------------------------------------------------
(* C27: what the sink holds after the day-range error *)

DayRangeError ==
    /\ pc \in {"encoded", "encoded_path"}
    /\ written.format = "iaga2002"
    /\ output.error = ErrDay

\* C27: when the IAGA-2002 write fails with the day-range error, the 14
\* header and comment records of the ordered traces are written, and neither
\* the column titles nor any data row
C27_HeaderBeforeDayCheck ==
    DayRangeError =>
        /\ Len(output.header) = 14
        /\ output.header =
             iaga2002_write_header(OrderedTraces, inventory, source)
        /\ output.columns = ""
        /\ output.rows = <<>>

\* a stream whose samples run into the next day, written to a sink
C27_Witness ==
    /\ DayRangeError
    /\ WrittenToSink
    /\ Len(output.header) = 14
    /\ output.header[1] =
         " Format                  IAGA-2002                                   |"
    /\ output.rows = <<>>

----------------------------------------------------------------------------
(* C28: the checks that run before the first write *)

ValidationErrors == {ErrCommon, ErrEmpty, ErrMultiple, ErrMinute}

NothingWritten ==
    /\ output.header = <<>>
    /\ output.columns = ""
    /\ output.rows = <<>>

\* C28: in the three formats a write to a sink that fails with the identity
\* error, the empty-stream error, the multiple-components error or the
\* IMFv1.22 interval error has written nothing and has not opened or closed
\* the sink; the identity check is the first one: a stream that differs in
\* network, station or sampling rate fails with the identity error, also when
\* it holds two traces of one of the components X, Y, Z, F, and an empty
\* stream fails with the empty-stream error
C28_ChecksBeforeFirstWrite ==
    WrittenToSink =>
        /\ output.error \in ValidationErrors =>
             /\ NothingWritten
             /\ ~resource.opened
             /\ ~resource.closed
        /\ Inconsistent(stream) => output.error = ErrCommon
        /\ stream = <<>> => output.error = ErrEmpty
        /\ (~Inconsistent(stream) /\ DuplicateXYZF(stream)) =>
             output.error = ErrMultiple
        /\ (output.error = ErrMinute) => written.format = "imfv122"

\* two X traces of different stations: inconsistent and ambiguous
C28_Witness ==
    /\ WrittenToSink
    /\ Inconsistent(stream)
    /\ DuplicateXYZF(stream)
    /\ output.error = ErrCommon
    /\ NothingWritten

C28_EmptyStream ==
    /\ WrittenToSink
    /\ output.error = ErrEmpty
    /\ NothingWritten

C28_Ambiguous ==
    /\ WrittenToSink
    /\ written.format = "iaga2002"
    /\ output.error = ErrMultiple
    /\ NothingWritten

C28_Interval ==
    /\ WrittenToSink
    /\ output.error = ErrMinute
    /\ NothingWritten

----------------------------------------------------------------------------
(* C29: the data type of a merged stream *)

Directory == pc = "directory"

FilesWritten == {files.written[k] : k \in 1..Len(files.written)}

AllDefinitive(st) ==
    /\ st # <<>>
    /\ \A i \in 1..Len(st) : st[i].location = "D0"

\* C29: the traces that merge_by_location() returned have an empty location
\* code; for every file written from them the IAGA-2002 name carries the
\* data-type letter v and the Data Type record, when the header was written,
\* has a blank value, also when every source trace had location D0
C29_MergedDataTypeBlank ==
    Directory =>
        /\ \A i \in 1..Len(files.stream) : files.stream[i].location = ""
        /\ \A f \in FilesWritten :
             /\ f.stats.location = ""
             /\ files.format = "iaga2002" =>
                  /\ f.name = "ott" \o CompactDate(f.stats.starttime) \o "v"
                                 \o IntervalStated(f.stats.channel[1]) \o "."
                                 \o IntervalStated(f.stats.channel[1])
                  /\ f.output.header # <<>> =>
                       f.output.header[12] =
                           " Data Type                                                           |"

\* the four components of OTT, all definitive, written for 2019-01-02
C29_Witness ==
    /\ Directory
    /\ AllDefinitive(original)
    /\ Len(original) = 4
    /\ files.format = "iaga2002"
    /\ files.status = "returned"
    /\ Len(files.written) = 1
    /\ files.written[1].name = "ott20190102vmin.min"
    /\ Len(files.written[1].output.header) = 14
    /\ Len(files.written[1].output.rows) = 1
    /\ files.written[1].resource.closed

----------------------------------------------------------------------------
(* fdsnws2directory: other outcomes *)

\* a trace that holds the sample of the next midnight keeps it through the
\* trim, and the IAGA-2002 write of the day then fails
DirectoryNextMidnightKept ==
    /\ Directory
    /\ files.format = "iaga2002"
    /\ files.error = ErrDay
    /\ Len(files.written) = 1
    /\ ~files.written[1].resource.closed

\* the internet format has no file name
DirectoryUnhandledFormat ==
    /\ Directory
    /\ files.format = "internet"
    /\ files.error = ErrFormat
    /\ files.written = <<>>

\* nothing of the stream lies on the requested day
DirectoryNothingToWrite ==
    /\ Directory
    /\ original # <<>>
    /\ files.status = "returned"
    /\ files.stream = <<>>
    /\ files.written = <<>>

DirectoryNoData ==
    /\ Directory
    /\ files.status = "returned 1"

----------------------------------------------------------------------------
(* C30: the time range of IMFv1.22 input *)

ImfDay == DayStart(OrderedTraces[1].starttime)

\* the sample times of the ordered traces before and after the day written
SamplesBeforeDay ==
    {<<c, t>> \in (1..4) \X (0..(3 * DaySeconds)) :
        /\ t < ImfDay
        /\ Covers(OrderedTraces[c], t)
        /\ (t - OrderedTraces[c].starttime) % 60 = 0}

SamplesAfterDay ==
    {c \in 1..4 :
        /\ npts(OrderedTraces[c]) > 0
        /\ endtime(OrderedTraces[c]) >= ImfDay + DaySeconds}

ShorterThanDay ==
    {c \in 1..4 : npts(OrderedTraces[c]) < 1440}

C30_BeforeDay ==
    /\ Accepted("imfv122")
    /\ output.error = ""
    /\ SamplesBeforeDay # {}
    /\ Len(output.rows) = 744

====
